---------------------------- MODULE Spec2Model ----------------------------
(***************************************************************************)
(* Inkwell: the card identification pipeline of inkwell-server and         *)
(* inkwell-core.                                                           *)
(*                                                                         *)
(* Data representation.                                                    *)
(*  - A byte string is run-length encoded: a sequence of runs <<b, k>>,    *)
(*    the byte b (0..255) k times.  A byte buffer (Vec<u8>, &[u8]) is a    *)
(*    sequence of chunks [bytes, n]: the byte string `bytes` repeated n    *)
(*    times.  A buffer of one chunk with n = 1 is a plain byte string; the *)
(*    descriptors of a query image with many equal rows are a chunk with   *)
(*    n > 1.  Every chunk of a matrix's buffer holds whole rows.           *)
(*  - An OpenCV Mat of u8 is [rows, cols, data] with data the row-major    *)
(*    byte buffer.                                                         *)
(*  - An Arc<GlobalIndex> is an address into the heap `snaps`.             *)
(*  - f32 distances are integers 0..488 and 0.75 is 3/4, all exact in f32; *)
(*    f64 confidence is an exact fraction [num, den].                      *)
(***************************************************************************)
EXTENDS Integers, Sequences, FiniteSets, TLC

\* inkwell-core/src/lib.rs:54
AKAZE_DESC_SIZE == 61
\* inkwell-server/src/main.rs:263
MIN_GOOD_MATCHES == 50
\* the divisor of the confidence, inkwell-server/src/main.rs:302
CONFIDENCE_DIVISOR == 100
\* inkwell-server/src/ingest.rs:10 and bin/ingest.rs:10
CONCURRENCY_LIMIT == 10

\* Bounds of the model.
NumCards == 2       \* catalog items
NumReq == 1         \* identify requests
NumClients == 2     \* identify requests of the counter specification
NumItems == 11      \* catalog items of the concurrency specification

\* Option<T>: None, Some(v)
None == <<>>
Some(v) == <<v>>
IsSome(o) == o # <<>>
Unwrap(o) == o[1]

Min(a, b) == IF a <= b THEN a ELSE b

-----------------------------------------------------------------------------
(* Byte buffers *)

Chunk(bs, n) == [bytes |-> bs, n |-> n]

\* The number of bytes of a byte string.
RECURSIVE RunsLen(_)
RunsLen(rs) == IF rs = <<>> THEN 0 ELSE rs[1][2] + RunsLen(Tail(rs))

\* Vec::len / slice::len
RECURSIVE BytesLen(_)
BytesLen(b) ==
    IF b = <<>> THEN 0 ELSE RunsLen(b[1].bytes) * b[1].n + BytesLen(Tail(b))

\* Vec::is_empty / slice::is_empty
IsEmpty(b) == BytesLen(b) = 0

\* A 61-byte binary descriptor: the byte v, then 60 bytes 0x00.
Desc(v) == <<<<v, 1>>, <<0, AKAZE_DESC_SIZE - 1>>>>

-----------------------------------------------------------------------------
(* OpenCV Mat and the descriptor codec, inkwell-core/src/lib.rs *)

Ok(v) == [ok |-> TRUE, val |-> v]
Err == [ok |-> FALSE]

\* Mat::default(): the empty matrix, 0 x 0.
MatDefault == [rows |-> 0, cols |-> 0, data |-> <<>>]

\* Mat::from_slice: a 1 x len matrix over a copy of the bytes.
MatFromSlice(bytes) == [rows |-> 1, cols |-> BytesLen(bytes), data |-> bytes]

\* cv::Mat::reshape(cn = 1, new_rows) on a continuous single-channel matrix:
\* new_rows = 0 (or the present number of rows) leaves the shape alone;
\* otherwise the element count must be divisible by new_rows.
MatReshape(m, new_rows) ==
    LET total == m.rows * m.cols IN
    IF new_rows = 0 \/ new_rows = m.rows THEN Ok(m)
    ELSE IF new_rows > total THEN Err
    ELSE IF (total \div new_rows) * new_rows # total THEN Err
    ELSE Ok([rows |-> new_rows, cols |-> total \div new_rows, data |-> m.data])

\* The decode with the reshape to 61 rows.
AkazeBytesToMatColumns(bytes) ==
    IF IsEmpty(bytes) THEN Ok(MatDefault)
    ELSE MatReshape(MatFromSlice(bytes), AKAZE_DESC_SIZE)

akaze_bytes_to_mat(bytes) ==
    IF IsEmpty(bytes) THEN Ok(MatDefault)
    ELSE LET mat_1d == MatFromSlice(bytes)
             rows == BytesLen(bytes) \div AKAZE_DESC_SIZE
         IN  MatReshape(mat_1d, rows)

-----------------------------------------------------------------------------
(* Images.  An image is abstracted to what the decoder and the AKAZE        *)
(* detector make of it: whether it decodes, and its descriptor bytes.       *)

Image(decodes, desc) == [decodes |-> decodes, desc |-> desc]

Corrupt == Image(FALSE, <<>>)
\* a featureless image (a solid colour)
Blank == Image(TRUE, <<>>)
\* the reference art of catalog item 1, of item 2, ...: two descriptors
\* each, 0x00 and 0x0F, 0xF0 and 0xFF, 0xE0 and 0xEF, ...
ArtByte(c) == (240 * (c - 1)) % 256
Art(c) == Image(TRUE, <<Chunk(Desc(ArtByte(c)) \o Desc(ArtByte(c) + 15), 1)>>)
\* a photograph with a descriptors one bit away from the first descriptor
\* of Art(1) and b descriptors one bit away from the first of Art(2)
Photo(a, b) ==
    Image(TRUE, (IF a > 0 THEN <<Chunk(Desc(ArtByte(1) + 1), a)>> ELSE <<>>)
                \o (IF b > 0 THEN <<Chunk(Desc(ArtByte(2) + 1), b)>> ELSE <<>>))

\* The file that has the first bytes of an image only: it does not decode.
Truncated(img) == [decodes |-> FALSE, desc |-> <<>>, first_bytes_of |-> img]

\* compute_akaze_features: Ok(descriptor bytes), or the library's error.
compute_akaze_features(img, fails) == IF fails THEN Err ELSE Ok(img.desc)

-----------------------------------------------------------------------------
(* The brute-force Hamming matcher (opencv BFMatcher, NORM_HAMMING) *)

RECURSIVE PopXor(_, _)
PopXor(a, b) ==
    IF a = b THEN 0
    ELSE (IF a % 2 # b % 2 THEN 1 ELSE 0) + PopXor(a \div 2, b \div 2)

\* The Hamming distance of two byte strings of the same length.
RECURSIVE Hamming(_, _)
Hamming(x, y) ==
    IF x = <<>> \/ y = <<>> THEN 0
    ELSE LET k == Min(x[1][2], y[1][2])
             Rest(z) == IF z[1][2] = k THEN Tail(z)
                        ELSE <<<<z[1][1], z[1][2] - k>>>> \o Tail(z)
         IN  k * PopXor(x[1][1], y[1][1]) + Hamming(Rest(x), Rest(y))

\* The first k bytes of a byte string, and the rest of it.
RECURSIVE TakeBytes(_, _)
TakeBytes(rs, k) ==
    IF k = 0 \/ rs = <<>> THEN [head |-> <<>>, rest |-> rs]
    ELSE IF rs[1][2] <= k
    THEN LET t == TakeBytes(Tail(rs), k - rs[1][2])
         IN  [head |-> <<rs[1]>> \o t.head, rest |-> t.rest]
    ELSE [head |-> <<<<rs[1][1], k>>>>,
          rest |-> <<<<rs[1][1], rs[1][2] - k>>>> \o Tail(rs)]

\* The rows of a matrix, as runs [row, n] (n equal rows).
RECURSIVE ChunkRows(_, _, _)
ChunkRows(rs, cols, n) ==
    IF rs = <<>> THEN <<>>
    ELSE LET t == TakeBytes(rs, cols)
         IN  <<[row |-> t.head, n |-> n]>> \o ChunkRows(t.rest, cols, n)

RECURSIVE RowRuns(_, _)
RowRuns(data, cols) ==
    IF data = <<>> THEN <<>>
    ELSE ChunkRows(data[1].bytes, cols, data[1].n) \o RowRuns(Tail(data), cols)

MatRows(m) == IF m.cols = 0 THEN <<>> ELSE RowRuns(m.data, m.cols)

\* A byte string with no empty run and no two adjacent runs of one byte.
RECURSIVE Norm(_)
Norm(rs) ==
    IF rs = <<>> THEN <<>>
    ELSE LET t == Norm(Tail(rs)) IN
         IF rs[1][2] = 0 THEN t
         ELSE IF t # <<>> /\ t[1][1] = rs[1][1]
         THEN <<<<rs[1][1], rs[1][2] + t[1][2]>>>> \o Tail(t)
         ELSE <<rs[1]>> \o t

\* The byte string bs, n times.
RECURSIVE Repeat(_, _)
Repeat(bs, n) == IF n = 0 THEN <<>> ELSE bs \o Repeat(bs, n - 1)

\* The bytes of a buffer, as one byte string.
RECURSIVE BufBytes(_)
BufBytes(b) ==
    IF b = <<>> THEN <<>>
    ELSE Norm(Repeat(b[1].bytes, b[1].n) \o BufBytes(Tail(b)))

RECURSIVE RowsBytes(_)
RowsBytes(rows) ==
    IF rows = <<>> THEN <<>>
    ELSE Repeat(rows[1].row, rows[1].n) \o RowsBytes(Tail(rows))

\* lib.rs:41-45: total() * elem_size() bytes copied from the continuous
\* matrix: its rows one after the other.
descriptors_bytes(m) == Norm(RowsBytes(MatRows(m)))

\* Every training descriptor with its distance to the query row.
Neighbours(row, train_vec) ==
    UNION { LET rs == MatRows(train_vec[t]) IN
            { [distance |-> Hamming(row, rs[i].row), img_idx |-> t - 1,
               train_idx |-> i - 1] : i \in 1..Len(rs) }
          : t \in 1..Len(train_vec) }

Closer(a, b) ==
    \/ a.distance < b.distance
    \/ a.distance = b.distance /\ a.img_idx < b.img_idx
    \/ a.distance = b.distance /\ a.img_idx = b.img_idx /\ a.train_idx <= b.train_idx

RECURSIVE Nearest(_, _)
Nearest(S, k) ==
    IF k = 0 \/ S = {} THEN <<>>
    ELSE LET b == CHOOSE c \in S : \A d \in S : Closer(c, d)
         IN  <<b>> \o Nearest(S \ {b}, k - 1)

\* DescriptorMatcher::knnMatch(query, matches, k): the k nearest training
\* descriptors of every query row over all training images.  It returns
\* without touching `matches` when there is no training image or no query
\* row, and fails (batchDistance's assertion) when a training matrix has not
\* the query's number of columns.
knn_match(query_mat, train_vec, k) ==
    IF Len(train_vec) = 0 \/ query_mat.rows = 0 THEN Ok(<<>>)
    ELSE IF \E t \in 1..Len(train_vec) : train_vec[t].cols # query_mat.cols THEN Err
    ELSE LET qs == MatRows(query_mat) IN
         Ok([i \in 1..Len(qs) |->
               [m |-> Nearest(Neighbours(qs[i].row, train_vec), k), n |-> qs[i].n]])

-----------------------------------------------------------------------------
(* identify_card: the blocking task, inkwell-server/src/main.rs:157-331 *)

Frac(num, den) == [num |-> num, den |-> den]
FracMin(x, y) == IF x.num * y.den <= y.num * x.den THEN x ELSE y
FracEq(x, y) == x.num * y.den = y.num * x.den
FracLe(x, y) == x.num * y.den <= y.num * x.den

ScanResult(card, confidence) ==
    [card |-> card, confidence |-> confidence, global_total_scans |-> 0]

\* A result without a card and with the confidence 1/2.
NoMatchHalf == ScanResult(None, Frac(1, 2))

NoMatch == ScanResult(None, Frac(0, 1))

\* The test with `<=` for `<`.
RatioTestLe(best, second) == 4 * best <= 3 * second

\* m[0].distance < ratio_thresh * m[1].distance, with ratio_thresh = 0.75
RatioTest(best, second) == 4 * best < 3 * second

\* *votes.entry(img_idx).or_insert(0) += 1, n times
AddVotes(votes, img_idx, n) ==
    IF img_idx \in DOMAIN votes
    THEN [votes EXCEPT ![img_idx] = @ + n]
    ELSE [i \in DOMAIN votes \cup {img_idx} |->
            IF i = img_idx THEN n ELSE votes[i]]

\* for m in matches { ... }, main.rs:281-290
RECURSIVE CountVotes(_, _)
CountVotes(matches, votes) ==
    IF matches = <<>> THEN votes
    ELSE LET m == matches[1].m IN
         CountVotes(Tail(matches),
            IF Len(m) = 2 /\ RatioTest(m[1].distance, m[2].distance)
            THEN AddVotes(votes, m[1].img_idx, matches[1].n)
            ELSE votes)

\* for (card_idx, vote_count) in votes { ... }, main.rs:292-297; `order` is
\* the iteration order of the HashMap.
RECURSIVE PickBest(_, _, _, _, _)
PickBest(order, votes, cards, max_good_matches, best_card) ==
    IF order = <<>>
    THEN [max_good_matches |-> max_good_matches, best_card |-> best_card]
    ELSE LET card_idx == Head(order) IN
         IF votes[card_idx] > max_good_matches
         THEN PickBest(Tail(order), votes, cards, votes[card_idx],
                       Some(cards[card_idx + 1]))
         ELSE PickBest(Tail(order), votes, cards, max_good_matches, best_card)

\* The iteration orders of a HashMap with key set S.
Orders(S) ==
    { o \in [1..Cardinality(S) -> S] : \A i, j \in DOMAIN o : o[i] = o[j] => i = j }

\* The quotient without the .min(1.0).
ConfidenceUnclamped(max_good_matches) == Frac(max_good_matches, CONFIDENCE_DIVISOR)

\* (max_good_matches as f64 / 100.0).min(1.0)
Confidence(max_good_matches) ==
    FracMin(Frac(max_good_matches, CONFIDENCE_DIVISOR), Frac(1, 1))

\* The report with `>` for `>=` in the comparison with MIN_GOOD_MATCHES.
ReportAbove(best) ==
    IF IsSome(best.best_card)
    THEN IF best.max_good_matches > MIN_GOOD_MATCHES
         THEN ScanResult(best.best_card, Confidence(best.max_good_matches))
         ELSE NoMatch
    ELSE NoMatch

\* The report with the quotient as the confidence below the threshold too.
ReportQuotient(best) ==
    IF IsSome(best.best_card)
    THEN IF best.max_good_matches >= MIN_GOOD_MATCHES
         THEN ScanResult(best.best_card, Confidence(best.max_good_matches))
         ELSE ScanResult(None, Confidence(best.max_good_matches))
    ELSE NoMatch

\* The report with a confidence of one half when no card has a vote.
ReportUnsure(best) ==
    IF IsSome(best.best_card)
    THEN IF best.max_good_matches >= MIN_GOOD_MATCHES
         THEN ScanResult(best.best_card, Confidence(best.max_good_matches))
         ELSE NoMatch
    ELSE ScanResult(None, Frac(1, 2))

\* main.rs:299-330
Report(best) ==
    IF IsSome(best.best_card)
    THEN IF best.max_good_matches >= MIN_GOOD_MATCHES
         THEN ScanResult(best.best_card, Confidence(best.max_good_matches))
         ELSE NoMatch
    ELSE NoMatch

\* The library calls that can fail, in the order of the code.
Faults == {"none", "sniff", "extract", "create", "add", "train", "knn"}

\* main.rs:173-290: decode, extract, build the query matrix, set up the
\* matcher, match and count the votes.  [ok, votes, stage]: ok = FALSE is an
\* early return of no-match (or the panic of the task) at `stage`.
Stop(stage) == [ok |-> FALSE, votes |-> <<>>, stage |-> stage]

\* The task with the extraction started before the decode is checked.
VoteStageExtractFirst(body, global_index, fault) ==
    IF fault = "sniff" THEN Stop("panic")
    ELSE LET feat == compute_akaze_features(body, fault = "extract") IN
    IF ~feat.ok THEN Stop("extract")
    ELSE IF ~body.decodes THEN Stop("decode")
    ELSE IF IsEmpty(feat.val) THEN Stop("nofeatures")
    ELSE LET query_mat == akaze_bytes_to_mat(feat.val) IN
    IF ~query_mat.ok THEN Stop("querymat")
    ELSE IF fault \in {"create", "add", "train"} THEN Stop(fault)
    ELSE LET matches == IF fault = "knn" THEN Err
                        ELSE knn_match(query_mat.val, global_index.train_vec, 2) IN
    IF ~matches.ok THEN Stop("knn")
    ELSE [ok |-> TRUE, votes |-> CountVotes(matches.val, <<>>), stage |-> "matched"]

VoteStage(body, global_index, fault) ==
    IF fault = "sniff" THEN Stop("panic")
    ELSE IF ~body.decodes THEN Stop("decode")
    ELSE LET feat == compute_akaze_features(body, fault = "extract") IN
    IF ~feat.ok THEN Stop("extract")
    ELSE IF IsEmpty(feat.val) THEN Stop("nofeatures")
    ELSE LET query_mat == akaze_bytes_to_mat(feat.val) IN
    IF ~query_mat.ok THEN Stop("querymat")
    ELSE IF fault \in {"create", "add", "train"} THEN Stop(fault)
    ELSE LET matches == IF fault = "knn" THEN Err
                        ELSE knn_match(query_mat.val, global_index.train_vec, 2) IN
    IF ~matches.ok THEN Stop("knn")
    ELSE [ok |-> TRUE, votes |-> CountVotes(matches.val, <<>>), stage |-> "matched"]

-----------------------------------------------------------------------------
(* The catalog source and the cards table *)

\* The items of the catalog JSON (LorcanaCard, ingest.rs:12-22).
CatalogItem(c) ==
    [name |-> <<"card", c>>, subtitle |-> None, set_code |-> "1", number |-> c,
     rarity |-> None]

Catalog == { CatalogItem(c) : c \in 1..NumCards }

\* format!("{}-{}", set_code, number), ingest.rs:59
CardId(item) == <<item.set_code, "-", item.number>>

Ids == { CardId(item) : item \in Catalog }

\* format!("{}/{}.jpg", IMAGE_DIR, id), ingest.rs:61
ImageUrl(id) == <<"card_images", "/", id, ".jpg">>

\* The images the catalog's image URL of an item may serve.
SourceImages(item) == {Art(item.number), Blank, Corrupt}

\* The 12x12 gradient hash as hex digits (ingest.rs:87-94): 36 digits that
\* depend on the image only, run-length encoded.
PHash(img) == <<<<BytesLen(img.desc) % 16, 1>>, <<0, 35>>>>

\* The row a full upsert writes (ingest.rs:98-123).  promo_grouping is not
\* among its columns: a new row has none.
FullRow(item, img, akaze_bytes) ==
    [id |-> CardId(item),
     name |-> item.name,
     subtitle |-> IF IsSome(item.subtitle) THEN Unwrap(item.subtitle) ELSE "",
     set_code |-> item.set_code,
     image_url |-> ImageUrl(CardId(item)),
     phash |-> PHash(img),
     akaze_data |-> akaze_bytes,
     rarity |-> IF IsSome(item.rarity) THEN Unwrap(item.rarity) ELSE "Unknown",
     card_number |-> item.number,
     promo_grouping |-> None]

\* A row left by an earlier, complete ingestion of the item.
IngestedRow(item) == FullRow(item, Art(item.number), Art(item.number).desc)

-----------------------------------------------------------------------------
(* preprocess_image, inkwell-core/src/lib.rs:78-93 *)

\* A picture is its width, its height and a row of samples of its pixels,
\* taken at the same relative places whatever the size; a sample is
\* <<r, g, b>>, or the luma of a grayscale picture.
Picture(width, height, px) == [width |-> width, height |-> height, px |-> px]

Max(a, b) == IF a >= b THEN a ELSE b

\* The quotient rounded to the nearest integer.
RoundDiv(a, b) == (2 * a + b) \div (2 * b)

\* DynamicImage::resize(nwidth, nheight, Lanczos3): the largest size of the
\* picture's aspect ratio that fits the bounds; the samples keep their
\* places.
Resize(pic, nwidth, nheight) ==
    IF pic.width * nheight >= pic.height * nwidth
    THEN Picture(nwidth, Max(1, RoundDiv(pic.height * nwidth, pic.width)), pic.px)
    ELSE Picture(Max(1, RoundDiv(pic.width * nheight, pic.height)), nheight, pic.px)

\* to_luma8: the luma of every pixel.
ToLuma8(pic) ==
    [pic EXCEPT !.px = [i \in DOMAIN @ |->
        (2126 * @[i][1] + 7152 * @[i][2] + 722 * @[i][3]) \div 10000]]

\* imageops::contrast(image, contrast): a new picture, every channel c
\* taken to ((c / 255 - 0.5) * ((100 + contrast) / 100)^2 + 0.5) * 255,
\* clamped to 0..255.
Contrast(pic, contrast) ==
    LET percent == (100 + contrast) * (100 + contrast)
        Stretch(c) == ((2 * c - 255) * percent + 255 * 10000) \div 20000
    IN  [pic EXCEPT !.px = [i \in DOMAIN @ |-> Max(0, Min(255, Stretch(@[i])))]]

\* imageops::blur(image, sigma): a new picture, every sample averaged with
\* its neighbours (weights 1, 2, 1; the border sample repeated).
Blur(pic) ==
    LET n == Len(pic.px)
        At(i) == pic.px[Max(1, Min(n, i))]
    IN  [pic EXCEPT !.px = [i \in DOMAIN @ |-> (At(i - 1) + 2 * At(i) + At(i + 1)) \div 4]]

\* lib.rs:83-93.  The picture that contrast returns (lib.rs:89) is dropped;
\* blur is given `gray`.
preprocess_image(img) ==
    LET resized == Resize(img, 500, 500)
        gray == ToLuma8(resized)
        stretched == Contrast(gray, 20)
        blurred == Blur(gray)
    IN  blurred

-----------------------------------------------------------------------------
(* generate_csv, inkwell-client/src/main.rs:690-787 *)

\* A text is a sequence of pieces; a comma and a quote are pieces of their
\* own, so that contains and replace see them.
RECURSIVE Concat(_)
Concat(pieces) ==
    IF pieces = <<>> THEN "" ELSE Head(pieces) \o Concat(Tail(pieces))

\* main.rs:733: full_name.contains(',') || full_name.contains('"')
NeedsQuotes(pieces) == \E i \in DOMAIN pieces : pieces[i] \in {",", "\""}

\* main.rs:734: format!("\"{}\"", full_name.replace('"', "\"\""))
Quoted(pieces) ==
    <<"\"">> \o [i \in DOMAIN pieces |-> IF pieces[i] = "\"" THEN "\"\"" ELSE pieces[i]]
             \o <<"\"">>

\* main.rs:727-737: the name and the subtitle, escaped.
EscapedName(card) ==
    LET full_name == IF card.subtitle = <<>> THEN card.name
                     ELSE card.name \o <<" - ">> \o card.subtitle
    IN  Concat(IF NeedsQuotes(full_name) THEN Quoted(full_name) ELSE full_name)

\* main.rs:739-749: the foil price of a foil when there is one, else the
\* usd price, else "0".
PriceStr(item) ==
    IF ~IsSome(item.prices) THEN "0"
    ELSE LET p == Unwrap(item.prices) IN
         IF item.is_foil /\ IsSome(p.usd_foil) THEN Unwrap(p.usd_foil)
         ELSE IF IsSome(p.usd) THEN Unwrap(p.usd)
         ELSE "0"

\* main.rs:700-703, 755-758: promo_grouping, or the set code, with a "0"
\* before it for Dreamborn.
GroupKey(card, format) ==
    IF IsSome(card.promo_grouping) THEN Unwrap(card.promo_grouping)
    ELSE IF format = "Dreamborn" THEN "0" \o card.set_code
    ELSE card.set_code

\* main.rs:705, 760
ItemKey(item, format) ==
    <<GroupKey(item.card, format), item.card.card_number, item.is_foil>>

\* rows.iter().position(|row| row.0 == key): the first index, or 0.
Position(rows, key) ==
    IF \E i \in DOMAIN rows : rows[i].key = key
    THEN CHOOSE i \in DOMAIN rows :
            /\ rows[i].key = key
            /\ \A j \in DOMAIN rows : rows[j].key = key => i <= j
    ELSE 0

\* The loop body that pushes a row for every item.
CountItemPush(rows, item, format) ==
    Append(rows, [key |-> ItemKey(item, format), count |-> 1,
                  name |-> EscapedName(item.card), rarity |-> item.card.rarity,
                  price |-> PriceStr(item), scanned_at |-> item.scanned_at])

\* main.rs:707-711, 762-773: the row of the key counts one more, or a new
\* row is pushed with what the item has.
CountItem(rows, item, format) ==
    LET key == ItemKey(item, format)
        pos == Position(rows, key)
    IN  IF pos # 0
        THEN [rows EXCEPT ![pos].count = @ + 1]
        ELSE Append(rows, [key |-> key, count |-> 1,
                           name |-> EscapedName(item.card),
                           rarity |-> item.card.rarity,
                           price |-> PriceStr(item),
                           scanned_at |-> item.scanned_at])

\* main.rs:697-712, 724-774: for item in items
RECURSIVE CountItems(_, _, _)
CountItems(rows, items, format) ==
    IF items = <<>> THEN rows
    ELSE CountItems(CountItem(rows, Head(items), format), Tail(items), format)

\* main.rs:693, 721-723: the header line, as its fields.
CsvHeader(format) ==
    IF format = "Dreamborn"
    THEN <<"Set Number", "Card Number", "Variant", "Count">>
    ELSE <<"Set Number", "Card Number", "Variant", "Count", "Card Name", "Rarity",
           "Price", "ScannedAt">>

\* main.rs:714-717, 776-782: the line of a row, as the fields that
\* format! puts between the commas.
CsvLine(row, format) ==
    LET variant == IF row.key[3] THEN "foil" ELSE "normal"
        first == <<row.key[1], ToString(row.key[2]), variant, ToString(row.count)>>
    IN  IF format = "Dreamborn" THEN first
        ELSE first \o <<row.name, row.rarity, row.price, row.scanned_at>>

\* The content: the header line and the line of every row.
generate_csv(items, format) ==
    LET rows == CountItems(<<>>, items, format) IN
    <<CsvHeader(format)>> \o [i \in DOMAIN rows |-> CsvLine(rows[i], format)]

-----------------------------------------------------------------------------
(* Card and ScanResult as JSON (serde derive, inkwell-core/src/lib.rs:95-141) *)

\* A JSON document is a tree: an object is the sequence of its members
\* <<name, value>> in the order they were written; a string value holds
\* the pieces between its quotes, escaped.
JsonNull == [t |-> "null", v |-> <<>>]
JsonNumber(n) == [t |-> "number", v |-> <<n>>]
JsonArray(vs) == [t |-> "array", v |-> vs]
JsonObject(members) == [t |-> "object", v |-> members]

\* serde_json writes a quote inside a string as \" and reads it back.
EscapeJson(pieces) ==
    [i \in DOMAIN pieces |-> IF pieces[i] = "\"" THEN "\\\"" ELSE pieces[i]]

UnescapeJson(pieces) ==
    [i \in DOMAIN pieces |-> IF pieces[i] = "\\\"" THEN "\"" ELSE pieces[i]]

JsonString(pieces) == [t |-> "string", v |-> EscapeJson(pieces)]

\* The members of a struct whose value is written: skip_serializing_if
\* leaves a member out.
Members(ms) == SelectSeq(ms, LAMBDA m : m[3])

\* Serialize for Card (lib.rs:95-128): the fields in the order of the
\* struct; akaze_data is left out when it is empty (lib.rs:111), and a
\* promo_grouping of None is written as null.
SerializeCard(card) ==
    LET all == << <<"id", JsonString(<<card.id>>), TRUE>>,
                  <<"name", JsonString(card.name), TRUE>>,
                  <<"subtitle", JsonString(card.subtitle), TRUE>>,
                  <<"phash", JsonString(<<card.phash>>), TRUE>>,
                  <<"akaze_data",
                    JsonArray([i \in DOMAIN card.akaze_data |-> JsonNumber(card.akaze_data[i])]),
                    card.akaze_data # <<>> >>,
                  <<"image_url", JsonString(<<card.image_url>>), TRUE>>,
                  <<"rarity", JsonString(<<card.rarity>>), TRUE>>,
                  <<"promo_grouping",
                    IF IsSome(card.promo_grouping)
                    THEN JsonString(<<Unwrap(card.promo_grouping)>>) ELSE JsonNull,
                    TRUE>>,
                  <<"set_code", JsonString(<<card.set_code>>), TRUE>>,
                  <<"card_number", JsonNumber(card.card_number), TRUE>> >>
        written == Members(all)
    IN  JsonObject([i \in DOMAIN written |-> <<written[i][1], written[i][2]>>])

\* The value of the member `name` of an object, if it has one.
Member(object, name) ==
    IF \E i \in DOMAIN object.v : object.v[i][1] = name
    THEN Some(object.v[CHOOSE i \in DOMAIN object.v : object.v[i][1] = name][2])
    ELSE None

\* A String field: the member must be there and be a string.
StringField(object, name) ==
    LET m == Member(object, name) IN
    IF IsSome(m) /\ Unwrap(m).t = "string" THEN Ok(UnescapeJson(Unwrap(m).v)) ELSE Err

\* A u32 field.
NumberField(object, name) ==
    LET m == Member(object, name) IN
    IF IsSome(m) /\ Unwrap(m).t = "number" THEN Ok(Unwrap(m).v[1]) ELSE Err

\* An Option<String> field: null and a missing member are None.
OptionField(object, name) ==
    LET m == Member(object, name) IN
    IF ~IsSome(m) \/ Unwrap(m).t = "null" THEN Ok(None)
    ELSE IF Unwrap(m).t = "string" THEN Ok(Some(Concat(UnescapeJson(Unwrap(m).v))))
    ELSE Err

\* The Vec<u8> field without serde(default): a missing member is an error.
BytesFieldRequired(object, name) ==
    LET m == Member(object, name) IN
    IF IsSome(m) /\ Unwrap(m).t = "array"
    THEN Ok([i \in DOMAIN Unwrap(m).v |-> Unwrap(m).v[i].v[1]])
    ELSE Err

\* lib.rs:111-112: the Vec<u8> field with serde(default): a missing member
\* is the empty vector.
BytesField(object, name) ==
    LET m == Member(object, name) IN
    IF ~IsSome(m) THEN Ok(<<>>)
    ELSE IF Unwrap(m).t = "array"
    THEN Ok([i \in DOMAIN Unwrap(m).v |-> Unwrap(m).v[i].v[1]])
    ELSE Err

\* Deserialize for Card: every field from its member, an error when one of
\* them fails.
DeserializeCard(json) ==
    IF json.t # "object" THEN Err
    ELSE
    LET id == StringField(json, "id")
        name == StringField(json, "name")
        subtitle == StringField(json, "subtitle")
        phash == StringField(json, "phash")
        akaze_data == BytesField(json, "akaze_data")
        image_url == StringField(json, "image_url")
        rarity == StringField(json, "rarity")
        promo_grouping == OptionField(json, "promo_grouping")
        set_code == StringField(json, "set_code")
        card_number == NumberField(json, "card_number")
    IN  IF /\ id.ok /\ name.ok /\ subtitle.ok /\ phash.ok /\ akaze_data.ok
           /\ image_url.ok /\ rarity.ok /\ promo_grouping.ok /\ set_code.ok
           /\ card_number.ok
        THEN Ok([id |-> Concat(id.val), name |-> name.val, subtitle |-> subtitle.val,
                 phash |-> Concat(phash.val), akaze_data |-> akaze_data.val,
                 image_url |-> Concat(image_url.val), rarity |-> Concat(rarity.val),
                 promo_grouping |-> promo_grouping.val,
                 set_code |-> Concat(set_code.val), card_number |-> card_number.val])
        ELSE Err

\* Serialize for ScanResult (lib.rs:130-141), as axum's Json writes it
\* (server main.rs:361).
SerializeResult(result) ==
    JsonObject(<< <<"card", IF IsSome(result.card)
                            THEN SerializeCard(Unwrap(result.card)) ELSE JsonNull>>,
                  <<"confidence", JsonNumber(result.confidence)>>,
                  <<"global_total_scans", JsonNumber(result.global_total_scans)>> >>)

\* Deserialize for ScanResult, as resp.json::<ScanResult>() reads it
\* (client main.rs:363); global_total_scans has serde(default).
DeserializeResult(json) ==
    IF json.t # "object" THEN Err
    ELSE
    LET c == Member(json, "card")
        card == IF ~IsSome(c) \/ Unwrap(c).t = "null" THEN Ok(None)
                ELSE LET d == DeserializeCard(Unwrap(c)) IN
                     IF d.ok THEN Ok(Some(d.val)) ELSE Err
        confidence == NumberField(json, "confidence")
        total == Member(json, "global_total_scans")
        global_total_scans == IF ~IsSome(total) THEN Ok(0)
                              ELSE NumberField(json, "global_total_scans")
    IN  IF card.ok /\ confidence.ok /\ global_total_scans.ok
        THEN Ok([card |-> card.val, confidence |-> confidence.val,
                 global_total_scans |-> global_total_scans.val])
        ELSE Err

-----------------------------------------------------------------------------
(* load_index, inkwell-server/src/main.rs:34-65 *)

\* The Card of a row (main.rs:46-56).
CardOfRow(row) ==
    [id |-> row.id, name |-> row.name, subtitle |-> row.subtitle,
     phash |-> row.phash, akaze_data |-> row.akaze_data,
     image_url |-> row.image_url, rarity |-> row.rarity,
     set_code |-> row.set_code, card_number |-> row.card_number]

GlobalIndex(train_vec, cards) == [train_vec |-> train_vec, cards |-> cards]

\* The loop with cards.push(card) outside the `if let Ok(m)`.
RECURSIVE IndexRowsPushCard(_, _)
IndexRowsPushCard(rows, acc) ==
    IF rows = <<>> THEN acc
    ELSE LET row == Head(rows)
             m == akaze_bytes_to_mat(row.akaze_data)
         IN  IndexRowsPushCard(Tail(rows),
                GlobalIndex(IF m.ok THEN Append(acc.train_vec, m.val) ELSE acc.train_vec,
                            Append(acc.cards, CardOfRow(row))))

\* for row in rows { ... }, main.rs:42-62
RECURSIVE IndexRows(_, _)
IndexRows(rows, acc) ==
    IF rows = <<>> THEN acc
    ELSE LET row == Head(rows)
             m == akaze_bytes_to_mat(row.akaze_data)
         IN  IndexRows(Tail(rows),
                IF m.ok
                THEN GlobalIndex(Append(acc.train_vec, m.val),
                                 Append(acc.cards, CardOfRow(row)))
                ELSE acc)

\* SELECT ... FROM cards: the rows of the table, in the order of their ids.
RECURSIVE SelectAll(_, _)
SelectAll(table, c) ==
    IF \A id \in DOMAIN table : id[3] < c THEN <<>>
    ELSE LET id == CardId(CatalogItem(c)) IN
         (IF id \in DOMAIN table THEN <<table[id]>> ELSE <<>>) \o SelectAll(table, c + 1)

load_index(table) == IndexRows(SelectAll(table, 1), GlobalIndex(<<>>, <<>>))

-----------------------------------------------------------------------------
(* State *)

VARIABLES
    db_cards,      \* the cards table: id -> row, for the ids that have a row
    total_scans,   \* system_stats.value of the key 'total_scanned_cards'
    files,         \* the image directory: id -> image, for the files present
    snaps,         \* the heap of Arc<GlobalIndex>: address -> Option<GlobalIndex>
    index,         \* AppState.index: the address the RwLock cell holds
    lock,          \* the RwLock: [writer, readers]
    bg,            \* the background ingestion task (main.rs:108-126)
    req,           \* the identify_card requests
    latest,        \* history: the GlobalIndex of the last completed publish
    stats,         \* the body of the last GET /api/stats response, if any
    scans0,        \* history: total_scans when the process started
    cli,           \* the ingest binary (bin/ingest.rs), when an operator runs it
    hist,          \* history of the ingestion runs
    app,           \* the client: the signals of App (inkwell-client/src/main.rs:37-49)
    processed      \* the last call of preprocess_image: [img, out], if any

vars == <<db_cards, total_scans, files, snaps, index, lock, bg, req, latest,
          stats, scans0, cli, hist, app, processed>>

Req == 1..NumReq

\* The addresses of the heap: the cell's snapshot, one being published, and
\* one per request.
Addr == 1..(NumReq + 2)

\* What the clients post, what the image URLs serve and which steps fail,
\* in the server specification.
QueryImages == {Photo(60, 0)}
ServedImages(item) == {Art(item.number), Blank}
ServerIngestFaults == {"none"}
ServerFaults == {"none", "knn"}

\* global_index = 0: the request holds no snapshot.  History: `snapshot`,
\* the GlobalIndex at the address when the request cloned the Arc; `start`,
\* total_scans when the handler was entered; `incremented`, whether its
\* UPDATE has added to the counter.
IdleReq ==
    [pc |-> "idle", body |-> Corrupt, global_index |-> 0,
     snapshot |-> GlobalIndex(<<>>, <<>>), votes |-> <<>>,
     max_good_matches |-> 0, stage |-> "", result |-> NoMatch,
     start |-> 0, incremented |-> FALSE]

IdOf(c) == CardId(CatalogItem(c))

\* A row with the descriptor blob `blob`, whoever wrote it.
RowWith(item, blob) == [IngestedRow(item) EXCEPT !.akaze_data = blob]

\* A table of rows of the catalog items C, item c with the blob blobs[c].
TableOf(C, blobs) == [id \in { IdOf(c) : c \in C } |-> RowWith(CatalogItem(id[3]), blobs[id[3]])]

\* The tables and image directories the server may start with: nothing
\* ingested, or everything ingested and the image directory lost.
InitStores ==
    { [t |-> <<>>, f |-> <<>>],
      [t |-> TableOf(1..NumCards, [c \in 1..NumCards |-> Art(c).desc]), f |-> <<>>] }

\* The signals of App as create_signal leaves them (client main.rs:40-49).
\* `tasks`: the tasks spawn_local has been given by start_scan, each at
\* its await of the identify request ("identify") or of the prices
\* ("prices").  `csv`: the content of the last download, with the list and
\* the format it was generated from (history).
AppMounted ==
    [is_scanning |-> FALSE, scanned_cards |-> <<>>, global_total |-> 0,
     csv_format |-> "Standard", scan_result |-> None, tasks |-> <<>>,
     csv |-> None]

\* History of the ingestion runs.  `entry` and `failed`: the entry point of
\* the run in progress (or of the last one) and the items whose
\* process_result was an Err in it (ingest.rs:153-155).  `last`: of the last
\* run that returned Ok (ingest.rs:160-161), its entry point, its failed
\* items, the cards table it left, and whether it was a run of the entry
\* point of the run before it, which had no failed item.
NoRuns == [entry |-> "", failed |-> {}, last |-> None]

RunStart(h, entry) == [h EXCEPT !.entry = entry, !.failed = {}]

ItemDone(h, item, ok) == [h EXCEPT !.failed = IF ok THEN @ ELSE @ \cup {item}]

RunEnd(h, table) ==
    [h EXCEPT !.last =
        Some([entry |-> h.entry, failed |-> h.failed, table |-> table,
              repeat |-> /\ IsSome(h.last)
                         /\ Unwrap(h.last).entry = h.entry
                         /\ Unwrap(h.last).failed = {}])]

\* The server before main.rs:98 has run, over the stores `stores`, with
\* the counter at one of `scans` and the requests R to come.
InitServer(stores, scans, R) ==
    /\ \E s \in stores :
        /\ db_cards = s.t
        /\ files = s.f
    /\ snaps = [a \in Addr |-> None]
    /\ latest = GlobalIndex(<<>>, <<>>)
    /\ total_scans \in scans
    /\ scans0 = total_scans
    /\ stats = None
    /\ index = 0
    /\ lock = [writer |-> FALSE, readers |-> {}]
    /\ bg = [pc |-> "boot", pending |-> {}, inflight |-> {}, new_index |-> None]
    /\ cli = [pc |-> "off", pending |-> {}, inflight |-> {}]
    /\ hist = NoRuns
    /\ req = [r \in R |-> IdleReq]

\* The same, with a client that has just mounted.
InitFrom(stores, scans, R) ==
    /\ InitServer(stores, scans, R)
    /\ app = AppMounted
    /\ processed = None

\* The same with the counter as the schema migration leaves it.
InitWith(stores) == InitFrom(stores, {0}, Req)

Init == InitWith(InitStores)

\* main.rs:97-126: the first load_index, the state, and the spawn of the
\* background task; an error of load_index ends the process.
Startup ==
    /\ bg.pc = "boot"
    /\ \/ /\ snaps' = [snaps EXCEPT ![1] = Some(load_index(db_cards))]
          /\ index' = 1
          /\ latest' = load_index(db_cards)
          /\ bg' = [bg EXCEPT !.pc = "fetch"]
       \/ /\ bg' = [bg EXCEPT !.pc = "exit"]
          /\ UNCHANGED <<snaps, index, latest>>
    /\ UNCHANGED <<db_cards, total_scans, files, lock, req, stats, scans0, cli, hist, app, processed>>

\* The addresses the requests hold a clone of.
Held(rq) == { rq[r].global_index : r \in DOMAIN rq } \ {0}

\* Dropping an Arc: the allocation is freed with its last reference.
DropArc(heap, a, cell, held) ==
    IF a = cell \/ a \in held THEN heap ELSE [heap EXCEPT ![a] = None]

-----------------------------------------------------------------------------
(* run_ingestion, inkwell-server/src/ingest.rs:30-162 *)

\* A fetch whose failure frees the published index.
RunFetchClear(catalog) ==
    /\ bg.pc = "fetch"
    /\ \/ /\ bg' = [bg EXCEPT !.pc = "items", !.pending = catalog]
          /\ hist' = RunStart(hist, "server")
          /\ UNCHANGED snaps
       \/ /\ bg' = [bg EXCEPT !.pc = "sleep"]
          /\ snaps' = [snaps EXCEPT ![index] = None]
          /\ UNCHANGED hist
    /\ UNCHANGED <<db_cards, total_scans, files, index, lock, req, latest, stats, scans0, cli, app, processed>>

\* ingest.rs:36-48: the image directory, the catalog fetch and its parse.
\* A failure of any of them fails the run (main.rs:112-113), which then
\* sleeps.
RunFetch(catalog) ==
    /\ bg.pc = "fetch"
    /\ \/ /\ bg' = [bg EXCEPT !.pc = "items", !.pending = catalog]
          /\ hist' = RunStart(hist, "server")
       \/ /\ bg' = [bg EXCEPT !.pc = "sleep"]
          /\ UNCHANGED hist
    /\ UNCHANGED <<db_cards, total_scans, files, snaps, index, lock, req, latest, stats, scans0, cli, app, processed>>

BgFetch == RunFetch(Catalog)

\* The check that finds any row of the id.
HasCompleteAnyRow(table, id) == id \in DOMAIN table

\* ingest.rs:64-70: SELECT id FROM cards WHERE id = ? AND akaze_data IS NOT
\* NULL AND phash IS NOT NULL AND phash != ''.  No column of a row is NULL
\* in this model.
has_complete(table, id) ==
    /\ id \in DOMAIN table
    /\ table[id].phash # <<>>

\* The UPDATE that also sets image_url to the path of this ingestion.
MetadataUpdateImageUrl(table, item) ==
    LET id == CardId(item) IN
    IF id \in DOMAIN table
    THEN [table EXCEPT ![id] =
            [@ EXCEPT !.name = item.name,
                      !.subtitle = IF IsSome(item.subtitle) THEN Unwrap(item.subtitle) ELSE "",
                      !.rarity = IF IsSome(item.rarity) THEN Unwrap(item.rarity) ELSE "Unknown",
                      !.set_code = item.set_code,
                      !.card_number = item.number,
                      !.image_url = ImageUrl(id)]]
    ELSE table

\* ingest.rs:126-146: UPDATE cards SET name, subtitle, rarity, set_code,
\* card_number WHERE id = ?
MetadataUpdate(table, item) ==
    LET id == CardId(item) IN
    IF id \in DOMAIN table
    THEN [table EXCEPT ![id] =
            [@ EXCEPT !.name = item.name,
                      !.subtitle = IF IsSome(item.subtitle) THEN Unwrap(item.subtitle) ELSE "",
                      !.rarity = IF IsSome(item.rarity) THEN Unwrap(item.rarity) ELSE "Unknown",
                      !.set_code = item.set_code,
                      !.card_number = item.number]]
    ELSE table

\* ingest.rs:98-123: INSERT ... ON CONFLICT(id) DO UPDATE SET ...: the
\* columns of the SET list are overwritten, promo_grouping of a row that
\* exists stays.
Upsert(table, row) ==
    [id \in DOMAIN table \cup {row.id} |->
        IF id # row.id THEN table[id]
        ELSE IF id \in DOMAIN table
        THEN [row EXCEPT !.promo_grouping = table[id].promo_grouping]
        ELSE row]

\* The steps of one item that can fail.
IngestFaults == {"none", "select", "download", "akaze", "db"}

\* The item whose error ends the run: the `?` outside process_result.
IngestItemAbort(item, served, fault) ==
    LET id == CardId(item)
        exists == id \in DOMAIN files
        needs_image_processing == ~exists \/ ~has_complete(db_cards, id)
        downloaded == ~exists /\ fault # "download"
        file == IF exists THEN files[id] ELSE served
        process_result ==
            /\ fault # "select"
            /\ IF needs_image_processing
               THEN (exists \/ downloaded) /\ file.decodes /\ fault \notin {"akaze", "db"}
               ELSE fault # "db"
    IN
    /\ bg.pc = "items"
    /\ item \in bg.pending
    /\ bg' = IF process_result
             THEN [bg EXCEPT !.pending = @ \ {item}, !.inflight = @ \ {item}]
             ELSE [bg EXCEPT !.pc = "sleep", !.pending = {}, !.inflight = {}]
    /\ hist' = ItemDone(hist, item, process_result)
    /\ IF fault = "select"
       THEN UNCHANGED <<db_cards, files>>
       ELSE IF needs_image_processing
       THEN /\ files' = IF downloaded
                        THEN [i \in DOMAIN files \cup {id} |->
                                IF i = id THEN served ELSE files[i]]
                        ELSE files
            /\ db_cards' =
                 IF (exists \/ downloaded) /\ file.decodes /\ fault \notin {"akaze", "db"}
                 THEN Upsert(db_cards,
                             FullRow(item, file, compute_akaze_features(file, FALSE).val))
                 ELSE db_cards
       ELSE /\ files' = files
            /\ db_cards' = IF fault = "db" THEN db_cards
                           ELSE MetadataUpdate(db_cards, item)
    /\ UNCHANGED <<total_scans, snaps, index, lock, req, latest, stats, scans0, cli, app, processed>>

\* The item that downloads its image whenever it processes it.
IngestItemRedownload(item, served, fault) ==
    LET id == CardId(item)
        exists == id \in DOMAIN files
        needs_image_processing == ~exists \/ ~has_complete(db_cards, id)
        downloaded == fault # "download"
        file == IF downloaded THEN served ELSE IF exists THEN files[id] ELSE served
        process_result ==
            /\ fault # "select"
            /\ IF needs_image_processing
               THEN (exists \/ downloaded) /\ file.decodes /\ fault \notin {"akaze", "db"}
               ELSE fault # "db"
    IN
    /\ bg.pc = "items"
    /\ item \in bg.pending
    /\ bg' = [bg EXCEPT !.pending = @ \ {item}, !.inflight = @ \ {item}]
    /\ hist' = ItemDone(hist, item, process_result)
    /\ IF fault = "select"
       THEN UNCHANGED <<db_cards, files>>
       ELSE IF needs_image_processing
       THEN /\ files' = IF downloaded
                        THEN [i \in DOMAIN files \cup {id} |->
                                IF i = id THEN served ELSE files[i]]
                        ELSE files
            /\ db_cards' =
                 IF (exists \/ downloaded) /\ file.decodes /\ fault \notin {"akaze", "db"}
                 THEN Upsert(db_cards,
                             FullRow(item, file, compute_akaze_features(file, FALSE).val))
                 ELSE db_cards
       ELSE /\ files' = files
            /\ db_cards' = IF fault = "db" THEN db_cards
                           ELSE MetadataUpdate(db_cards, item)
    /\ UNCHANGED <<total_scans, snaps, index, lock, req, latest, stats, scans0, cli, app, processed>>

\* ingest.rs:58-156: one catalog item.  Its error is printed and the item
\* is done either way.  The fault "write": fs::write (ingest.rs:81) creates
\* the file and fails, or the process is stopped, before all bytes are in
\* it.
IngestItem(item, served, fault) ==
    LET id == CardId(item)
        exists == id \in DOMAIN files
        needs_image_processing == ~exists \/ ~has_complete(db_cards, id)
        downloaded == ~exists /\ fault # "download"
        written == downloaded /\ fault # "write"
        file == IF exists THEN files[id] ELSE served
        process_result ==
            /\ fault # "select"
            /\ IF needs_image_processing
               THEN (exists \/ written) /\ file.decodes /\ fault \notin {"akaze", "db"}
               ELSE fault # "db"
    IN
    /\ bg.pc = "items"
    /\ item \in bg.pending
    /\ bg' = [bg EXCEPT !.pending = @ \ {item}, !.inflight = @ \ {item}]
    /\ hist' = ItemDone(hist, item, process_result)
    /\ IF fault = "select"
       THEN UNCHANGED <<db_cards, files>>
       ELSE IF needs_image_processing
       THEN /\ files' = IF downloaded
                        THEN [i \in DOMAIN files \cup {id} |->
                                IF i # id THEN files[i]
                                ELSE IF written THEN served ELSE Truncated(served)]
                        ELSE files
            /\ db_cards' =
                 IF (exists \/ written) /\ file.decodes /\ fault \notin {"akaze", "db"}
                 THEN Upsert(db_cards,
                             FullRow(item, file, compute_akaze_features(file, FALSE).val))
                 ELSE db_cards
       ELSE /\ files' = files
            /\ db_cards' = IF fault = "db" THEN db_cards
                           ELSE MetadataUpdate(db_cards, item)
    /\ UNCHANGED <<total_scans, snaps, index, lock, req, latest, stats, scans0, cli, app, processed>>

BgIngestItem ==
    \E item \in Catalog : \E served \in ServedImages(item) :
    \E fault \in ServerIngestFaults :
        IngestItem(item, served, fault)

\* The reload that takes the snapshot of the cell for the new index.
BgLoadIndexStale ==
    /\ bg.pc = "items"
    /\ bg.pending = {}
    /\ \/ bg' = [bg EXCEPT !.pc = "lock", !.new_index = snaps[index]]
       \/ bg' = [bg EXCEPT !.pc = "sleep"]
    /\ hist' = RunEnd(hist, db_cards)
    /\ UNCHANGED <<db_cards, total_scans, files, snaps, index, lock, req, latest, stats, scans0, cli, app, processed>>

\* The reload whose error ends the background task.
BgLoadIndexReturn ==
    /\ bg.pc = "items"
    /\ bg.pending = {}
    /\ \/ bg' = [bg EXCEPT !.pc = "lock", !.new_index = Some(load_index(db_cards))]
       \/ bg' = [bg EXCEPT !.pc = "exit"]
    /\ hist' = RunEnd(hist, db_cards)
    /\ UNCHANGED <<db_cards, total_scans, files, snaps, index, lock, req, latest, stats, scans0, cli, app, processed>>

\* main.rs:115-122: after a successful run, load_index.  Ok(new_index) goes
\* on to the write lock; an error is printed.
BgLoadIndex ==
    /\ bg.pc = "items"
    /\ bg.pending = {}
    /\ \/ bg' = [bg EXCEPT !.pc = "lock", !.new_index = Some(load_index(db_cards))]
       \/ bg' = [bg EXCEPT !.pc = "sleep"]
    /\ hist' = RunEnd(hist, db_cards)
    /\ UNCHANGED <<db_cards, total_scans, files, snaps, index, lock, req, latest, stats, scans0, cli, app, processed>>

\* main.rs:117: bg_index.write().await
BgWriteLock ==
    /\ bg.pc = "lock"
    /\ ~lock.writer
    /\ lock.readers = {}
    /\ lock' = [lock EXCEPT !.writer = TRUE]
    /\ bg' = [bg EXCEPT !.pc = "swap"]
    /\ UNCHANGED <<db_cards, total_scans, files, snaps, index, req, latest, stats, scans0, cli, hist, app, processed>>

\* A swap that drops the new index and leaves the cell as it is.
PublishNothing(heap, cell, new_index, held) == [snaps |-> heap, index |-> cell]

\* A swap that writes the new index through the Arc into the shared
\* allocation: **wl = new_index.
PublishInPlace(heap, cell, new_index, held) ==
    [snaps |-> [heap EXCEPT ![cell] = Some(new_index)], index |-> cell]

\* main.rs:118: *wl = Arc::new(new_index): a new allocation, the cell set to
\* it, and the Arc the cell held dropped.  The heap and the cell after it.
Publish(heap, cell, new_index, held) ==
    LET a == CHOOSE x \in Addr :
                /\ ~IsSome(heap[x])
                /\ \A y \in Addr : ~IsSome(heap[y]) => x <= y
    IN  [snaps |-> DropArc([heap EXCEPT ![a] = Some(new_index)], cell, a, held),
         index |-> a]

\* main.rs:118-120: the swap; the guard drops at the end of the arm.
BgSwap ==
    /\ bg.pc = "swap"
    /\ LET p == Publish(snaps, index, Unwrap(bg.new_index), Held(req)) IN
        /\ snaps' = p.snaps
        /\ index' = p.index
    /\ latest' = Unwrap(bg.new_index)
    /\ lock' = [lock EXCEPT !.writer = FALSE]
    /\ bg' = [bg EXCEPT !.pc = "sleep", !.new_index = None]
    /\ UNCHANGED <<db_cards, total_scans, files, req, stats, scans0, cli, hist, app, processed>>

\* main.rs:124: the 24 hours sleep, then the next run.
BgWake ==
    /\ bg.pc = "sleep"
    /\ bg' = [bg EXCEPT !.pc = "fetch"]
    /\ UNCHANGED <<db_cards, total_scans, files, snaps, index, lock, req, latest, stats, scans0, cli, hist, app, processed>>

-----------------------------------------------------------------------------
(* for_each_concurrent(CONCURRENCY_LIMIT, ...), ingest.rs:53-158 and       *)
(* bin/ingest.rs:91-166.  `pending` holds the items whose future has not   *)
(* completed, `inflight` those of them whose future has been created.      *)
(* IngestItem and BinIngestItem are the whole future of one item; an item  *)
(* they take from `pending` that is not in `inflight` is pulled and run to *)
(* its end in one step (the futures of two items write disjoint rows and   *)
(* files).                                                                 *)

\* The stream is polled while fewer or as many futures as the limit are in
\* flight.
HasRoomLe(inflight) == Cardinality(inflight) <= CONCURRENCY_LIMIT

\* futures for_each_concurrent: the stream is polled for its next item only
\* while fewer futures than the limit are in flight.
HasRoom(inflight) == Cardinality(inflight) < CONCURRENCY_LIMIT

\* stream::iter(wrapper.cards): the items in the order of the catalog.
NextOfStream(p) ==
    CHOOSE item \in p.pending \ p.inflight :
        \A other \in p.pending \ p.inflight : item.number <= other.number

\* The process record p after the pull of the next item.
Pull(p) == [p EXCEPT !.inflight = @ \cup {NextOfStream(p)}]

\* ingest.rs:53-58: the future of the next item is created.
BgPull ==
    /\ bg.pc = "items"
    /\ bg.pending \ bg.inflight # {}
    /\ HasRoom(bg.inflight)
    /\ bg' = Pull(bg)
    /\ UNCHANGED <<db_cards, total_scans, files, snaps, index, lock, req, latest, stats, scans0, cli, hist, app, processed>>

\* The future of an item in flight runs to its end.
BgComplete(item, served, fault) ==
    /\ item \in bg.inflight
    /\ IngestItem(item, served, fault)

-----------------------------------------------------------------------------
(* The ingest binary, inkwell-server/src/bin/ingest.rs *)

\* bin/ingest.rs:30-89: the database, the migrations, the image directory,
\* the catalog fetch and its parse; an error of any of them ends the
\* process.
CliStart(catalog) ==
    /\ cli.pc \in {"off", "exit"}
    /\ \/ /\ cli' = [pc |-> "items", pending |-> catalog, inflight |-> {}]
          /\ hist' = RunStart(hist, "bin")
       \/ /\ cli.pc = "off"
          /\ cli' = [cli EXCEPT !.pc = "exit"]
          /\ UNCHANGED hist
    /\ UNCHANGED <<db_cards, total_scans, files, snaps, index, lock, bg, req, latest, stats, scans0, app, processed>>

\* bin/ingest.rs:131-154: INSERT ... ON CONFLICT(id) DO UPDATE SET phash,
\* image_url, akaze_data, rarity, set_code, card_number: the name and the
\* subtitle of a row that exists stay.
UpsertBin(table, row) ==
    [id \in DOMAIN table \cup {row.id} |->
        IF id # row.id THEN table[id]
        ELSE IF id \in DOMAIN table
        THEN [row EXCEPT !.name = table[id].name, !.subtitle = table[id].subtitle,
                         !.promo_grouping = table[id].promo_grouping]
        ELSE row]

\* The steps of one item of the binary that can fail.
BinFaults == {"none", "download", "akaze", "db"}

\* bin/ingest.rs:97-164: one catalog item: the download when the file is
\* missing, then always the decode, the hash, the descriptors and the
\* upsert.
BinIngestItem(item, served, fault) ==
    LET id == CardId(item)
        exists == id \in DOMAIN files
        downloaded == ~exists /\ fault # "download"
        written == downloaded /\ fault # "write"
        file == IF exists THEN files[id] ELSE served
        process_result ==
            (exists \/ written) /\ file.decodes /\ fault \notin {"akaze", "db"}
    IN
    /\ cli.pc = "items"
    /\ item \in cli.pending
    /\ cli' = [cli EXCEPT !.pending = @ \ {item}, !.inflight = @ \ {item}]
    /\ hist' = ItemDone(hist, item, process_result)
    /\ files' = IF downloaded
                THEN [i \in DOMAIN files \cup {id} |->
                        IF i # id THEN files[i]
                        ELSE IF written THEN served ELSE Truncated(served)]
                ELSE files
    /\ db_cards' =
         IF process_result
         THEN UpsertBin(db_cards,
                        FullRow(item, file, compute_akaze_features(file, FALSE).val))
         ELSE db_cards
    /\ UNCHANGED <<total_scans, snaps, index, lock, bg, req, latest, stats, scans0, app, processed>>

\* bin/ingest.rs:91-92: the future of the next item is created.
CliPull ==
    /\ cli.pc = "items"
    /\ cli.pending \ cli.inflight # {}
    /\ HasRoom(cli.inflight)
    /\ cli' = Pull(cli)
    /\ UNCHANGED <<db_cards, total_scans, files, snaps, index, lock, bg, req, latest, stats, scans0, hist, app, processed>>

\* The future of an item in flight runs to its end.
CliComplete(item, served, fault) ==
    /\ item \in cli.inflight
    /\ BinIngestItem(item, served, fault)

\* bin/ingest.rs:166-169: all futures are done, main returns Ok(()).
CliExit ==
    /\ cli.pc = "items"
    /\ cli.pending = {}
    /\ cli' = [cli EXCEPT !.pc = "exit"]
    /\ hist' = RunEnd(hist, db_cards)
    /\ UNCHANGED <<db_cards, total_scans, files, snaps, index, lock, bg, req, latest, stats, scans0, app, processed>>

-----------------------------------------------------------------------------
(* identify_card, inkwell-server/src/main.rs:149-362 *)

\* main.rs:153: state.index.read().await, in a server that has started.
\* The requests are numbered in the order of their arrival.
ReqReadLock(r, body) ==
    /\ index # 0
    /\ req[r].pc = "idle"
    /\ \A q \in DOMAIN req : q < r => req[q].pc # "idle"
    /\ ~lock.writer
    /\ lock' = [lock EXCEPT !.readers = @ \cup {r}]
    /\ req' = [req EXCEPT ![r] = [@ EXCEPT !.pc = "locked", !.body = body,
                                   !.start = total_scans]]
    /\ UNCHANGED <<db_cards, total_scans, files, snaps, index, bg, latest, stats, scans0, cli, hist, app, processed>>

\* main.rs:154: rl.clone(): the address the request holds from here on.
CloneArc(cell) == cell

\* The clone whose read guard lives on to the end of the handler.
ReqCloneHoldGuard(r) ==
    /\ req[r].pc = "locked"
    /\ req' = [req EXCEPT ![r] = [@ EXCEPT !.pc = "acquired",
                                   !.global_index = CloneArc(index),
                                   !.snapshot = Unwrap(snaps[CloneArc(index)])]]
    /\ UNCHANGED <<db_cards, total_scans, files, snaps, index, lock, bg, latest, stats, scans0, cli, hist, app, processed>>

\* main.rs:152-155: the clone, and the read guard drops.
ReqClone(r) ==
    /\ req[r].pc = "locked"
    /\ lock' = [lock EXCEPT !.readers = @ \ {r}]
    /\ req' = [req EXCEPT ![r] = [@ EXCEPT !.pc = "acquired",
                                   !.global_index = CloneArc(index),
                                   !.snapshot = Unwrap(snaps[CloneArc(index)])]]
    /\ UNCHANGED <<db_cards, total_scans, files, snaps, index, bg, latest, stats, scans0, cli, hist, app, processed>>

\* main.rs:292-340: the winner, the report, and the join of the task.
FinishTask(vs, cards, order) ==
    IF ~vs.ok
    THEN [votes |-> vs.votes, max_good_matches |-> 0, stage |-> vs.stage,
          result |-> NoMatch]
    ELSE LET best == PickBest(order, vs.votes, cards, 0, None) IN
         [votes |-> vs.votes, max_good_matches |-> best.max_good_matches,
          stage |-> vs.stage, result |-> Report(best)]

\* A task that reads the cell at the time it runs, not its own clone.
TaskIndexOfCell(heap, held, cell) == Unwrap(heap[cell])

\* main.rs:157, 239, 295: the GlobalIndex the task reads is the one behind
\* the Arc that moved into the closure.
TaskIndex(heap, held, cell) == Unwrap(heap[held])

\* main.rs:157-340: the blocking task, with the library fault `fault`; the
\* closure and its Arc drop with the task.
ReqMatch(r, fault) ==
    /\ req[r].pc = "acquired"
    /\ LET global_index == TaskIndex(snaps, req[r].global_index, index)
           vs == VoteStage(req[r].body, global_index, fault)
       IN  \E order \in Orders(DOMAIN vs.votes) :
             LET t == FinishTask(vs, global_index.cards, order) IN
             req' = [req EXCEPT ![r] = [@ EXCEPT !.pc = "matched", !.votes = t.votes,
                                         !.max_good_matches = t.max_good_matches,
                                         !.stage = t.stage, !.result = t.result,
                                         !.global_index = 0]]
    /\ snaps' = DropArc(snaps, req[r].global_index, index, Held(req'))
    /\ UNCHANGED <<db_cards, total_scans, files, index, lock, bg, latest, stats, scans0, cli, hist, app, processed>>

\* The counter as the migration leaves it, or as an earlier process left it.
InitialScans == {0, 1}

\* The store operations that can fail.
StoreFaults == {"none", "db"}

\* The statement adding 2, and the statement subtracting 1.
CounterUpdateTwice(value) == value + 2

CounterUpdateDown(value) == value - 1

\* UPDATE system_stats SET value = value + 1: one statement of the store.
CounterUpdate(value) == value + 1

\* The UPDATE whatever the result.
ReqUpdateAnyResult(r, fault) ==
    /\ req[r].pc = "matched"
    /\ total_scans' = IF fault = "none" THEN CounterUpdate(total_scans) ELSE total_scans
    /\ req' = [req EXCEPT ![r] = [@ EXCEPT !.pc = "counted",
                                   !.incremented = (fault = "none")]]
    /\ UNCHANGED <<db_cards, files, snaps, index, lock, bg, latest, stats, scans0, cli, hist, app, processed>>

\* The counter read when the handler is entered and written back, plus
\* one, after the match.
ReqUpdateFromStart(r, fault) ==
    /\ req[r].pc = "matched"
    /\ IsSome(req[r].result.card)
    /\ total_scans' = IF fault = "none" THEN req[r].start + 1 ELSE total_scans
    /\ req' = [req EXCEPT ![r] = [@ EXCEPT !.pc = "counted",
                                   !.incremented = (fault = "none")]]
    /\ UNCHANGED <<db_cards, files, snaps, index, lock, bg, latest, stats, scans0, cli, hist, app, processed>>

\* main.rs:345-351: the UPDATE, when the result has a card; its error is
\* dropped.
ReqUpdate(r, fault) ==
    /\ req[r].pc = "matched"
    /\ IsSome(req[r].result.card)
    /\ total_scans' = IF fault = "none" THEN CounterUpdate(total_scans) ELSE total_scans
    /\ req' = [req EXCEPT ![r] = [@ EXCEPT !.pc = "counted",
                                   !.incremented = (fault = "none")]]
    /\ UNCHANGED <<db_cards, files, snaps, index, lock, bg, latest, stats, scans0, cli, hist, app, processed>>

\* The handler's return: the response is final_result, the locals are gone.
Response(final_result) == [IdleReq EXCEPT !.pc = "done", !.result = final_result]

\* The response with the counter as it was when the handler was entered.
ReqRespondFromStart(r, fault) ==
    /\ \/ req[r].pc = "counted"
       \/ req[r].pc = "matched" /\ ~IsSome(req[r].result.card)
    /\ req' = [req EXCEPT ![r] =
                 Response(IF fault = "none"
                          THEN [req[r].result EXCEPT !.global_total_scans = req[r].start]
                          ELSE req[r].result)]
    /\ UNCHANGED <<db_cards, total_scans, files, snaps, index, lock, bg, latest,
                   stats, scans0, cli, hist, app, processed>>

\* The response degraded to no match when the SELECT fails.
ReqRespondOrNoMatch(r, fault) ==
    /\ \/ req[r].pc = "counted"
       \/ req[r].pc = "matched" /\ ~IsSome(req[r].result.card)
    /\ req' = [req EXCEPT ![r] =
                 Response(IF fault = "none"
                          THEN [req[r].result EXCEPT !.global_total_scans = total_scans]
                          ELSE NoMatch)]
    /\ UNCHANGED <<db_cards, total_scans, files, snaps, index, lock, bg, latest,
                   stats, scans0, cli, hist, app, processed>>

\* The response with the counter as it was before the request's own UPDATE.
ReqRespondBeforeUpdate(r, fault) ==
    /\ \/ req[r].pc = "counted"
       \/ req[r].pc = "matched" /\ ~IsSome(req[r].result.card)
    /\ req' = [req EXCEPT ![r] =
                 Response(IF fault = "none"
                          THEN [req[r].result EXCEPT !.global_total_scans =
                                  IF req[r].incremented THEN total_scans - 1 ELSE total_scans]
                          ELSE req[r].result)]
    /\ UNCHANGED <<db_cards, total_scans, files, snaps, index, lock, bg, latest,
                   stats, scans0, cli, hist, app, processed>>

\* main.rs:354-361: SELECT value ..., and the response; when the SELECT
\* fails global_total_scans stays as the task left it.
ReqRespond(r, fault) ==
    /\ \/ req[r].pc = "counted"
       \/ req[r].pc = "matched" /\ ~IsSome(req[r].result.card)
    /\ req' = [req EXCEPT ![r] =
                 Response(IF fault = "none"
                          THEN [req[r].result EXCEPT !.global_total_scans = total_scans]
                          ELSE req[r].result)]
    /\ UNCHANGED <<db_cards, total_scans, files, snaps, index, lock, bg, latest,
                   stats, scans0, cli, hist, app, processed>>

\* main.rs:364-376: get_stats; total is 0 when the SELECT fails.
GetStats(fault) ==
    /\ index # 0
    /\ stats' = Some([total_scanned_cards |->
                        IF fault = "none" THEN total_scans ELSE 0])
    /\ UNCHANGED <<db_cards, total_scans, files, snaps, index, lock, bg, req, latest,
                   scans0, cli, hist, app, processed>>

-----------------------------------------------------------------------------
(* The client, inkwell-client/src/main.rs *)

\* ingest.rs:84-85, bin/ingest.rs:113-115: the decoded image of an item is
\* preprocessed for the hash.
Preprocess(img) ==
    /\ processed' = Some([img |-> img, out |-> preprocess_image(img)])
    /\ UNCHANGED <<db_cards, total_scans, files, snaps, index, lock, bg, req, latest, stats, scans0, cli, hist, app>>

\* The scans start_scan may start, and the outcomes of an identify
\* request: the request fails, the body is not a ScanResult, or the body
\* is the JSON of a ScanResult.
MaxScans == 2

NewTask == [pc |-> "identify", sent |-> None, result |-> None]

\* main.rs:308-405: start_scan up to spawn_local: is_scanning is set, and
\* with a canvas the picture is cropped and the task is spawned.
StartScan(canvas) ==
    /\ Len(app.tasks) < MaxScans
    /\ app' = [app EXCEPT !.is_scanning = TRUE,
                          !.tasks = IF canvas THEN Append(@, NewTask) ELSE @]
    /\ UNCHANGED <<db_cards, total_scans, files, snaps, index, lock, bg, req, latest, stats, scans0, cli, hist, processed>>

\* main.rs:354-364, 388-403: the identify request of task t ends.  "error":
\* send() fails, the error is logged and is_scanning is cleared.
\* "garbage": the body is no ScanResult and the unwrap of resp.json()
\* panics.  "json": the body is the JSON of `sent`; with a card the task
\* goes on to the prices, without one the total and the result are set and
\* is_scanning is cleared.
IdentifyEnds(t, outcome, sent) ==
    /\ t \in DOMAIN app.tasks
    /\ app.tasks[t].pc = "identify"
    /\ LET parsed == IF outcome = "json" THEN DeserializeResult(SerializeResult(sent))
                     ELSE Err
       IN  app' =
             IF outcome = "error"
             THEN [app EXCEPT !.tasks[t].pc = "done", !.is_scanning = FALSE]
             ELSE IF ~parsed.ok
             THEN [app EXCEPT !.tasks[t].pc = "panicked"]
             ELSE IF IsSome(parsed.val.card)
             THEN [app EXCEPT !.tasks[t] = [pc |-> "prices", sent |-> Some(sent),
                                            result |-> Some(parsed.val)]]
             ELSE [app EXCEPT !.tasks[t].pc = "done",
                              !.global_total = parsed.val.global_total_scans,
                              !.scan_result = Some(parsed.val),
                              !.is_scanning = FALSE]
    /\ UNCHANGED <<db_cards, total_scans, files, snaps, index, lock, bg, req, latest, stats, scans0, cli, hist, processed>>

\* main.rs:365-403: the prices request of task t ends, whatever its
\* outcome: the item is pushed, the total and the result are set and
\* is_scanning is cleared.
PricesEnd(t, prices) ==
    /\ t \in DOMAIN app.tasks
    /\ app.tasks[t].pc = "prices"
    /\ LET result == Unwrap(app.tasks[t].result) IN
       app' = [app EXCEPT
                 !.tasks[t] = [pc |-> "done", sent |-> None, result |-> None],
                 !.scanned_cards =
                     Append(@, [card |-> Unwrap(result.card), prices |-> prices,
                                is_foil |-> FALSE,
                                scanned_at |-> "2026-02-23T21:55:00.000Z"]),
                 !.global_total = result.global_total_scans,
                 !.scan_result = Some(result),
                 !.is_scanning = FALSE]
    /\ UNCHANGED <<db_cards, total_scans, files, snaps, index, lock, bg, req, latest, stats, scans0, cli, hist, processed>>

\* main.rs:601-611: the checkbox under the last result flips is_foil of the
\* last item; it is shown while the result's card is the last item's.
ToggleFoil ==
    /\ IsSome(app.scan_result)
    /\ IsSome(Unwrap(app.scan_result).card)
    /\ app.scanned_cards # <<>>
    /\ LET n == Len(app.scanned_cards)
           card == Unwrap(Unwrap(app.scan_result).card)
       IN  /\ app.scanned_cards[n].card.phash = card.phash
           /\ app.scanned_cards[n].card.id = card.id
           /\ app' = [app EXCEPT !.scanned_cards[n].is_foil = ~@]
    /\ UNCHANGED <<db_cards, total_scans, files, snaps, index, lock, bg, req, latest, stats, scans0, cli, hist, processed>>

\* main.rs:531-538: the format select.
SetCsvFormat(format) ==
    /\ app' = [app EXCEPT !.csv_format = format]
    /\ UNCHANGED <<db_cards, total_scans, files, snaps, index, lock, bg, req, latest, stats, scans0, cli, hist, processed>>

\* main.rs:407-443: download_csv; nothing is generated from an empty list.
DownloadCsv ==
    /\ app' = IF app.scanned_cards = <<>> THEN app
              ELSE [app EXCEPT !.csv =
                      Some([items |-> app.scanned_cards, format |-> app.csv_format,
                            content |-> generate_csv(app.scanned_cards, app.csv_format)])]
    /\ UNCHANGED <<db_cards, total_scans, files, snaps, index, lock, bg, req, latest, stats, scans0, cli, hist, processed>>

\* main.rs:446-450: reset_session.
ResetSession ==
    /\ app' = [app EXCEPT !.scanned_cards = <<>>, !.scan_result = None]
    /\ UNCHANGED <<db_cards, total_scans, files, snaps, index, lock, bg, req, latest, stats, scans0, cli, hist, processed>>

-----------------------------------------------------------------------------

Next ==
    \/ Startup
    \/ BgFetch
    \/ BgIngestItem
    \/ BgLoadIndex
    \/ BgWriteLock
    \/ BgSwap
    \/ BgWake
    \/ \E r \in Req : \E body \in QueryImages : ReqReadLock(r, body)
    \/ \E r \in Req : ReqClone(r)
    \/ \E r \in Req : \E fault \in ServerFaults : ReqMatch(r, fault)
    \/ \E r \in Req : \E fault \in StoreFaults : ReqUpdate(r, fault)
    \/ \E r \in Req : \E fault \in StoreFaults : ReqRespond(r, fault)
    \/ \E fault \in StoreFaults : GetStats(fault)

Spec == Init /\ [][Next]_vars

\* A step of the background task other than the wait for the write lock.
BgStep == Startup \/ BgFetch \/ BgIngestItem \/ BgLoadIndex \/ BgSwap \/ BgWake

\* The scheduling of the server: the runtime polls the spawned background
\* task, so its next step is taken when it stays possible (the catalog
\* request and the statements of the store return, with a result or an
\* error; the sleep ends); the RwLock of tokio is fair, so the writer that
\* waits gets the lock although readers come and go; the request that holds
\* the read lock goes on to its clone and drops the guard.
Fairness ==
    /\ WF_vars(BgStep)
    /\ SF_vars(BgWriteLock)
    /\ WF_vars(ReqClone(1))

\* The loop with a request that contends for its lock, against a store and
\* a library that do not fail the request.
NextLive ==
    \/ Startup
    \/ BgFetch
    \/ BgIngestItem
    \/ BgLoadIndex
    \/ BgWriteLock
    \/ BgSwap
    \/ BgWake
    \/ ReqReadLock(1, Blank)
    \/ ReqClone(1)
    \/ ReqMatch(1, "none")
    \/ ReqRespond(1, "none")

InitLive == InitFrom(InitStores, {0}, {1})

SpecLive == InitLive /\ [][NextLive]_vars /\ Fairness

-----------------------------------------------------------------------------
(* The index build over any table: load_index at startup, whatever blobs   *)
(* the rows hold.                                                          *)

\* A blob of len bytes: the byte v, then zeros.
Blob(len, v) ==
    IF len = 0 THEN <<>>
    ELSE <<Chunk(<<<<v, 1>>>> \o (IF len > 1 THEN <<<<0, len - 1>>>> ELSE <<>>), 1)>>

\* Blob lengths around the multiples of the descriptor size.
BlobLens ==
    {0, 1, AKAZE_DESC_SIZE - 1, AKAZE_DESC_SIZE, AKAZE_DESC_SIZE + 1,
     2 * AKAZE_DESC_SIZE, 2 * AKAZE_DESC_SIZE + 1, 2 * AKAZE_DESC_SIZE + 2}

AnyStores ==
    { [t |-> TableOf(C, [c \in 1..NumCards |-> Blob(lens[c], c)]), f |-> <<>>] :
        C \in SUBSET (1..NumCards), lens \in [1..NumCards -> BlobLens] }

InitIndex == InitWith(AnyStores)

NextIndex == Startup

SpecIndex == InitIndex /\ [][NextIndex]_vars

-----------------------------------------------------------------------------
(* Serving: the requests of a started server whose background task is      *)
(* between two runs, over more queries, indexes and library faults.        *)

\* The numbers of descriptors of a photograph near one reference.
VoteCounts == {0, 1, MIN_GOOD_MATCHES - 1, MIN_GOOD_MATCHES, MIN_GOOD_MATCHES + 1,
               CONFIDENCE_DIVISOR - 1, CONFIDENCE_DIVISOR, CONFIDENCE_DIVISOR + 1}

\* An image whose descriptor bytes are not a whole number of descriptors.
Garbled == Image(TRUE, Blob(2 * AKAZE_DESC_SIZE + 1, 1))

MatchQueries ==
    {Corrupt, Blank, Garbled, Art(1)}
    \cup { Photo(a, b) : a \in VoteCounts, b \in {0, MIN_GOOD_MATCHES} }

\* Tables of ingested reference art, of one item or of all, and one with a
\* featureless image ingested for the last item.
MatchStores ==
    { [t |-> TableOf(C, [c \in 1..NumCards |-> Art(c).desc]), f |-> <<>>] :
        C \in {{}, {1}, {NumCards}, 1..NumCards} }
    \cup { [t |-> TableOf(1..NumCards,
                          [c \in 1..NumCards |->
                              IF c = NumCards THEN Blank.desc ELSE Art(c).desc]),
            f |-> <<>>] }

InitMatch == InitFrom(MatchStores, InitialScans, Req)

NextMatch ==
    \/ Startup
    \/ \E r \in Req : \E body \in MatchQueries : ReqReadLock(r, body)
    \/ \E r \in Req : ReqClone(r)
    \/ \E r \in Req : \E fault \in Faults : ReqMatch(r, fault)
    \/ \E r \in Req : \E fault \in StoreFaults : ReqUpdate(r, fault)
    \/ \E r \in Req : \E fault \in StoreFaults : ReqRespond(r, fault)

SpecMatch == InitMatch /\ [][NextMatch]_vars


-----------------------------------------------------------------------------
(* The ratio test: requests against references of one or two descriptors   *)
(* at every pair of distances from the query's descriptor.                 *)

\* The descriptor bytes of a reference image: descriptors of the first
\* bytes bs.
RECURSIVE RefBytes(_)
RefBytes(bs) == IF bs = <<>> THEN <<>> ELSE Desc(Head(bs)) \o RefBytes(Tail(bs))

Ref(bs) == Image(TRUE, <<Chunk(RefBytes(bs), 1)>>)

\* A photograph of n equal descriptors of the first byte v.
Shot(v, n) == Image(TRUE, <<Chunk(Desc(v), n)>>)

\* First bytes at the Hamming distances 0, 1, 3, 4, 5, 6 and 8 from 0x00.
RatioBytes == {0, 1, 7, 15, 31, 63, 255}

\* One reference of one or two descriptors, or two references of one.
RatioStores ==
    { [t |-> TableOf({1}, [c \in 1..NumCards |-> Ref(bs).desc]), f |-> <<>>] :
        bs \in { <<v>> : v \in RatioBytes } \cup (RatioBytes \X RatioBytes) }
    \cup
    { [t |-> TableOf({1, NumCards},
                    [c \in 1..NumCards |-> Ref(<<IF c = 1 THEN vw[1] ELSE vw[2]>>).desc]),
       f |-> <<>>] : vw \in RatioBytes \X RatioBytes }

RatioQueries == {Shot(0, 1), Shot(0, MIN_GOOD_MATCHES)}

InitRatio == InitWith(RatioStores)

NextRatio ==
    \/ Startup
    \/ \E r \in Req : \E body \in RatioQueries : ReqReadLock(r, body)
    \/ \E r \in Req : ReqClone(r)
    \/ \E r \in Req : ReqMatch(r, "none")
    \/ \E r \in Req : ReqUpdate(r, "none")
    \/ \E r \in Req : ReqRespond(r, "none")

SpecRatio == InitRatio /\ [][NextRatio]_vars

-----------------------------------------------------------------------------
(* The counter: concurrent requests and GET /api/stats against a store     *)
(* that does not fail, from any value of the counter.                      *)

Clients == 1..NumClients

\* A photograph that gets a card, and a featureless image.
CountQueries == {Photo(MIN_GOOD_MATCHES, 0), Blank}

CountStores ==
    { [t |-> TableOf(1..NumCards, [c \in 1..NumCards |-> Art(c).desc]), f |-> <<>>] }

InitCount == InitFrom(CountStores, InitialScans, Clients)

NextCount ==
    \/ Startup
    \/ \E r \in Clients : \E body \in CountQueries : ReqReadLock(r, body)
    \/ \E r \in Clients : ReqClone(r)
    \/ \E r \in Clients : ReqMatch(r, "none")
    \/ \E r \in Clients : ReqUpdate(r, "none")
    \/ \E r \in Clients : ReqRespond(r, "none")
    \/ GetStats("none")

SpecCount == InitCount /\ [][NextCount]_vars

-----------------------------------------------------------------------------
(* Bounded concurrency: one run of the server's job and one of the ingest  *)
(* binary over a catalog of more items than the limit, with nothing        *)
(* ingested before and no failure.                                         *)

PoolCatalog == { CatalogItem(c) : c \in 1..NumItems }

PoolStores == { [t |-> <<>>, f |-> <<>>] }

InitPool == InitWith(PoolStores)

\* The binary runs before the server is started.
NextPool ==
    \/ cli.pc # "items" /\ Startup
    \/ RunFetch(PoolCatalog)
    \/ BgPull
    \/ \E item \in PoolCatalog : BgComplete(item, Art(item.number), "none")
    \/ BgLoadIndex
    \/ bg.pc = "boot" /\ CliStart(PoolCatalog)
    \/ CliPull
    \/ \E item \in PoolCatalog : CliComplete(item, Art(item.number), "none")
    \/ CliExit

SpecPool == InitPool /\ [][NextPool]_vars

-----------------------------------------------------------------------------
(* Ingestion: runs of the server's job and of the ingest binary, one after *)
(* the other, over what earlier ingestions left, with failing items.       *)

\* The row of an ingestion of the image img for the item when the catalog
\* had another name and subtitle for it and the images another directory.
StaleRow(item, img) ==
    [FullRow(item, img, img.desc) EXCEPT
        !.name = <<"old", item.number>>, !.subtitle = "old",
        !.image_url = <<"images", "/", CardId(item), ".jpg">>]

\* A row without a hash.
UnhashedRow(item) == [StaleRow(item, Art(item.number)) EXCEPT !.phash = <<>>]

\* What an earlier ingestion left of one item, [row, file]: nothing; a row
\* and its image; a row and no image; a row without a hash and the image;
\* the row and the image of a featureless picture.
Leftovers(item) ==
    LET art == Art(item.number) IN
    { [row |-> None, file |-> None],
      [row |-> Some(StaleRow(item, art)), file |-> Some(art)],
      [row |-> Some(StaleRow(item, art)), file |-> None],
      [row |-> Some(UnhashedRow(item)), file |-> Some(art)],
      [row |-> Some(StaleRow(item, Blank)), file |-> Some(Blank)] }

\* The first item with any leftover, the others with nothing or with a row
\* and its image.
IngestStores ==
    { [t |-> [id \in { IdOf(c) : c \in { x \in 1..NumCards : IsSome(left[x].row) } } |->
                Unwrap(left[id[3]].row)],
       f |-> [id \in { IdOf(c) : c \in { x \in 1..NumCards : IsSome(left[x].file) } } |->
                Unwrap(left[id[3]].file)]] :
      left \in { l \in [1..NumCards -> UNION { Leftovers(CatalogItem(c)) : c \in 1..NumCards }] :
                   \A c \in 1..NumCards :
                       /\ l[c] \in Leftovers(CatalogItem(c))
                       /\ c > 1 => \/ ~IsSome(l[c].row) /\ ~IsSome(l[c].file)
                                   \/ IsSome(l[c].row) /\ IsSome(l[c].file)
                                      /\ Unwrap(l[c].file) = Art(c)
                                      /\ Unwrap(l[c].row).phash # <<>> } }

\* What the image URL of an item serves, and the steps of the item that
\* fail: the first item with all of them, the others with the reference
\* art and a failing store.
IngestImages(item) ==
    IF item.number = 1 THEN {Art(item.number), Corrupt} ELSE {Art(item.number)}

ItemFaults(item, faults) == IF item.number = 1 THEN faults ELSE {"none", "db"}

InitIngest == InitWith(IngestStores)

\* The binary runs before the server is started.
NextIngest ==
    \/ cli.pc # "items" /\ Startup
    \/ BgFetch
    \/ \E item \in Catalog : \E served \in IngestImages(item) :
       \E fault \in ItemFaults(item, IngestFaults) : IngestItem(item, served, fault)
    \/ BgLoadIndex
    \/ BgWriteLock
    \/ BgSwap
    \/ BgWake
    \/ bg.pc = "boot" /\ CliStart(Catalog)
    \/ \E item \in Catalog : \E served \in IngestImages(item) :
       \E fault \in ItemFaults(item, BinFaults) : BinIngestItem(item, served, fault)
    \/ CliExit

SpecIngest == InitIngest /\ [][NextIngest]_vars

-----------------------------------------------------------------------------
(* The metadata update: runs of the server's job over rows of promo cards. *)

\* A row of the cards table with a promo grouping: the column of the
\* card record that no statement of the ingestion writes.
PromoRow(row, promo) == [row EXCEPT !.promo_grouping = Some(promo)]

\* What is there of an item, [row, file]: nothing; the row of a promo card
\* and its image; the same row without a hash, and the image.
PromoLeftovers(item) ==
    LET art == Art(item.number)
        row == PromoRow(StaleRow(item, art), "P1")
    IN  { [row |-> None, file |-> None],
          [row |-> Some(row), file |-> Some(art)],
          [row |-> Some([row EXCEPT !.phash = <<>>]), file |-> Some(art)] }

MetaStores ==
    { [t |-> [id \in { IdOf(c) : c \in { x \in 1..NumCards : IsSome(left[x].row) } } |->
                Unwrap(left[id[3]].row)],
       f |-> [id \in { IdOf(c) : c \in { x \in 1..NumCards : IsSome(left[x].file) } } |->
                Unwrap(left[id[3]].file)]] :
      left \in { l \in [1..NumCards -> UNION { PromoLeftovers(CatalogItem(c)) : c \in 1..NumCards }] :
                   \A c \in 1..NumCards : l[c] \in PromoLeftovers(CatalogItem(c)) } }

InitMeta == InitWith(MetaStores)

NextMeta ==
    \/ Startup
    \/ BgFetch
    \/ \E item \in Catalog : \E fault \in IngestFaults :
          IngestItem(item, Art(item.number), fault)
    \/ BgLoadIndex
    \/ BgWriteLock
    \/ BgSwap
    \/ BgWake

SpecMeta == InitMeta /\ [][NextMeta]_vars

-----------------------------------------------------------------------------
(* Recovery: runs with a failing source, disk and store, and then runs     *)
(* with all of them healthy.                                               *)

\* The steps of an item that fail while the source, the disk or the store
\* fail.
FileFaults == {"none", "download", "write", "db"}

\* What the image URL serves then: the reference art, or a body that is no
\* image (the status of the response is not looked at, ingest.rs:80).
FileImages(item) == {Art(item.number), Corrupt}

\* A run has returned: from then on the source, the disk and the store are
\* healthy.
Healthy == IsSome(hist.last)

InitFiles == InitWith(InitStores)

NextFiles ==
    \/ cli.pc # "items" /\ Startup
    \/ BgFetch
    \/ \E item \in Catalog :
       \E served \in (IF Healthy THEN {Art(item.number)} ELSE FileImages(item)) :
       \E fault \in (IF Healthy THEN {"none"} ELSE FileFaults) :
          IngestItem(item, served, fault)
    \/ BgLoadIndex
    \/ BgWriteLock
    \/ BgSwap
    \/ BgWake
    \/ bg.pc = "boot" /\ CliStart(Catalog)
    \/ \E item \in Catalog : \E served \in FileImages(item) : \E fault \in FileFaults :
          BinIngestItem(item, served, fault)
    \/ CliExit

SpecFiles == InitFiles /\ [][NextFiles]_vars

-----------------------------------------------------------------------------
(* The counter as the clients see it: a first request that has been        *)
(* answered before any other starts, the others concurrent, against a      *)
(* store whose statements may fail.                                        *)

InitTotals == InitFrom(CountStores, InitialScans, Clients)

NextTotals ==
    \/ Startup
    \/ \E r \in Clients : \E body \in CountQueries :
          /\ r > 1 => req[1].pc = "done"
          /\ ReqReadLock(r, body)
    \/ \E r \in Clients : ReqClone(r)
    \/ \E r \in Clients : ReqMatch(r, "none")
    \/ \E r \in Clients : \E fault \in StoreFaults : ReqUpdate(r, fault)
    \/ \E r \in Clients : \E fault \in StoreFaults : ReqRespond(r, fault)

SpecTotals == InitTotals /\ [][NextTotals]_vars

-----------------------------------------------------------------------------
(* The preprocessing for the hash, of any picture.                         *)

\* The samples of a picture.
NumSamples == 3

Pixels == {<<0, 0, 0>>, <<255, 255, 255>>, <<200, 100, 50>>, <<100, 100, 100>>}

\* Landscape, portrait and square pictures, larger and smaller than the
\* bounds.
Pictures ==
    { Picture(d[1], d[2], px) :
        d \in {<<1000, 500>>, <<300, 600>>, <<500, 500>>},
        px \in [1..NumSamples -> Pixels] }

InitHash == InitWith(InitStores)

NextHash == \E img \in Pictures : Preprocess(img)

SpecHash == InitHash /\ [][NextHash]_vars

-----------------------------------------------------------------------------
(* The export: download_csv over any list of scanned items.                *)

\* The longest list of scanned items.
MaxItems == 3

\* The cards the server has answered with: two cards of set 1, one of them
\* with a comma and a quote in its name and no subtitle, a promo card with
\* the number of the first, and a promo card whose grouping reads as the
\* set code of the first with a "0" before it.
ClientCard(set_code, number, promo, name, subtitle) ==
    [id |-> set_code \o "-" \o ToString(number), name |-> name, subtitle |-> subtitle,
     phash |-> "0f" \o ToString(number), akaze_data |-> <<>>, image_url |-> "",
     rarity |-> "Common", promo_grouping |-> promo, set_code |-> set_code,
     card_number |-> number]

ClientCards ==
    { ClientCard("1", 1, None, <<"Mickey Mouse">>, <<"Brave Little Tailor">>),
      ClientCard("1", 2, None, <<"Donald ", "\"", "Duck", "\"", ",", " The Brave">>, <<>>),
      ClientCard("6", 1, Some("P3"), <<"Stitch">>, <<"Rock Star">>),
      ClientCard("1", 1, Some("01"), <<"Mickey Mouse">>, <<"Brave Little Tailor">>) }

\* The prices of a card: none, or a usd price without a foil price.
ClientPrices == {None, Some([usd |-> Some("1.50"), usd_foil |-> None])}

\* A scanned item; only the first card of set 1 comes with prices.
ScannedItems ==
    { [card |-> c, prices |-> p, is_foil |-> f, scanned_at |-> "2026-02-23T21:55:00.000Z"] :
        c \in ClientCards, p \in ClientPrices, f \in BOOLEAN }

CsvItems == { it \in ScannedItems : IsSome(it.prices) => it.card.id = "1-1" }

CsvLists == UNION { [1..n -> CsvItems] : n \in 0..MaxItems }

\* The client after some scans: the list, and the last result on screen.
InitCsv ==
    /\ InitServer(CountStores, {0}, Req)
    /\ processed = None
    /\ \E items \in CsvLists :
        app = [AppMounted EXCEPT
                 !.scanned_cards = items,
                 !.scan_result =
                    IF items = <<>> THEN None
                    ELSE Some(ScanResult(Some(items[Len(items)].card), Frac(1, 1)))]

NextCsv ==
    \/ ToggleFoil
    \/ \E format \in {"Standard", "Dreamborn"} : SetCsvFormat(format)
    \/ DownloadCsv
    \/ ResetSession

SpecCsv == InitCsv /\ [][NextCsv]_vars

-----------------------------------------------------------------------------
(* The responses: scans one after the other, answered with any card.       *)

\* The cards of the responses: the client's cards without descriptors, as
\* ingestion leaves the card of a featureless image, and with three bytes
\* of them.
JsonCards ==
    { [c EXCEPT !.akaze_data = a] : c \in ClientCards, a \in {<<>>, <<0, 15, 255>>} }

JsonResults ==
    { [ScanResult(Some(c), Frac(1, 1)) EXCEPT !.global_total_scans = 3] : c \in JsonCards }
    \cup {NoMatch}

\* No task is at a request.
NoneInFlight == \A t \in DOMAIN app.tasks : app.tasks[t].pc \notin {"identify", "prices"}

InitJson == InitFrom(CountStores, {0}, Req)

NextJson ==
    \/ NoneInFlight /\ \E canvas \in BOOLEAN : StartScan(canvas)
    \/ \E t \in 1..MaxScans : \E outcome \in {"error", "json"} : \E sent \in JsonResults :
          IdentifyEnds(t, outcome, sent)
    \/ \E t \in 1..MaxScans : \E prices \in ClientPrices : PricesEnd(t, prices)
    \/ ToggleFoil
    \/ ResetSession

SpecJson == InitJson /\ [][NextJson]_vars

-----------------------------------------------------------------------------
(* The scan button: presses at any time, and responses in any order.       *)

\* A response with a card and one without.
ScanResults ==
    { [ScanResult(Some(ClientCard("1", 1, None, <<"Mickey Mouse">>, <<>>)), Frac(1, 1))
          EXCEPT !.global_total_scans = 3],
      NoMatch }

InitScan == InitFrom(CountStores, {0}, Req)

NextScan ==
    \/ \E canvas \in BOOLEAN : StartScan(canvas)
    \/ \E t \in 1..MaxScans : \E outcome \in {"error", "garbage", "json"} :
       \E sent \in ScanResults : IdentifyEnds(t, outcome, sent)
    \/ \E t \in 1..MaxScans : \E prices \in ClientPrices : PricesEnd(t, prices)
    \/ ToggleFoil
    \/ ResetSession

SpecScan == InitScan /\ [][NextScan]_vars

-----------------------------------------------------------------------------
(* Properties *)

\* The votes of the reference with the most votes; 0 without votes.
WinningVotes(votes) ==
    IF DOMAIN votes = {} THEN 0
    ELSE CHOOSE v \in { votes[i] : i \in DOMAIN votes } :
            \A j \in DOMAIN votes : votes[j] <= v

\* The lowest img_idx among the references with the most votes.
LowestWinner(votes) ==
    CHOOSE i \in DOMAIN votes :
        /\ votes[i] = WinningVotes(votes)
        /\ \A j \in DOMAIN votes : votes[j] = WinningVotes(votes) => i <= j

\* The results the task can return for `body` matched against the index S,
\* over the library faults and the iteration orders of the votes.
Outcomes(body, S) ==
    UNION { LET vs == VoteStage(body, S, fault) IN
            { FinishTask(vs, S.cards, order).result : order \in Orders(DOMAIN vs.votes) } :
            fault \in Faults }

\* The task of request r has returned and the handler has not.
Matched(r) == req[r].pc \in {"matched", "counted"}

\* The step is the response of request r.
Responds(r) == req[r].pc # "done" /\ req'[r].pc = "done"

\* C1: a request that acquired the snapshot S gets a result of matching its
\* body against S, with a card of S's record list, whatever has been
\* published since it acquired S.
C1_SnapshotIsolation ==
    \A r \in Req : Matched(r) =>
        LET S == req[r].snapshot IN
        /\ req[r].result \in Outcomes(req[r].body, S)
        /\ IsSome(req[r].result.card) =>
              \E i \in DOMAIN S.cards : S.cards[i] = Unwrap(req[r].result.card)

\* A request got a card from its snapshot after a successor was published
\* against which its body matches nothing.
C1_Witness ==
    \E r \in Req :
        /\ req[r].pc = "matched"
        /\ IsSome(req[r].result.card)
        /\ latest # req[r].snapshot
        /\ Outcomes(req[r].body, latest) = {NoMatch}

\* C2: a request that clones the Arc holds the snapshot of the last
\* completed publish, never an older one.
C2_FreshnessAfterPublish ==
    [][\A r \in Req : req[r].pc = "locked" /\ req'[r].pc = "acquired" =>
          /\ req'[r].snapshot = latest
          /\ Unwrap(snaps'[req'[r].global_index]) = latest]_vars

\* A request has acquired the snapshot of a publish: the cell holds an
\* allocation other than the one of the startup.
C2_Witness ==
    \E r \in Req :
        /\ req[r].pc = "acquired"
        /\ req[r].global_index = index
        /\ index # 1
        /\ req[r].snapshot = latest

\* C3: no step changes the GlobalIndex of an allocation, and a step that
\* writes the cards table leaves the heap, the cell and the snapshots the
\* requests hold as they are.
C3_PublishedSnapshotImmutable ==
    [][/\ \A a \in Addr : IsSome(snaps[a]) /\ IsSome(snaps'[a]) => snaps'[a] = snaps[a]
       /\ db_cards' # db_cards =>
             /\ snaps' = snaps
             /\ index' = index
             /\ \A r \in Req : req'[r] = req[r]]_vars

\* An ingestion run has written the table, the snapshot in the cell is no
\* longer what load_index would build, and a request holds that snapshot.
C3_Witness ==
    /\ index # 0
    /\ bg.pc = "items"
    /\ Unwrap(snaps[index]) # load_index(db_cards)
    /\ \E r \in Req : req[r].pc = "acquired" /\ req[r].global_index = index

\* C4: in every snapshot, cards and train_vec have the same length and
\* train_vec[i] is the matrix decoded from cards[i].akaze_data.
C4_IndexAlignment ==
    \A a \in Addr : IsSome(snaps[a]) =>
        LET S == Unwrap(snaps[a]) IN
        /\ Len(S.cards) = Len(S.train_vec)
        /\ \A i \in DOMAIN S.cards :
              LET m == akaze_bytes_to_mat(S.cards[i].akaze_data) IN
              m.ok /\ S.train_vec[i] = m.val

\* A snapshot of a full table whose first row was skipped and a later row
\* indexed.
C4_Witness ==
    /\ index # 0
    /\ DOMAIN db_cards = Ids
    /\ LET S == Unwrap(snaps[index]) IN
        /\ Len(S.cards) >= 1
        /\ Len(S.cards) < NumCards
        /\ S.cards[1].id # IdOf(1)

\* C5: every matrix of every snapshot has 61 columns.
C5_MatricesHave61Columns ==
    \A a \in Addr : IsSome(snaps[a]) =>
        \A i \in DOMAIN Unwrap(snaps[a]).train_vec :
            Unwrap(snaps[a]).train_vec[i].cols = 61

\* C6: no snapshot has a record whose akaze_data is empty.
C6_EmptyAkazeDataSkipped ==
    \A a \in Addr : IsSome(snaps[a]) =>
        \A i \in DOMAIN Unwrap(snaps[a]).cards :
            ~IsEmpty(Unwrap(snaps[a]).cards[i].akaze_data)

\* C7: the card of a result is the record of the lowest img_idx among the
\* references with the most votes.
C7_TieBreakLowestIdx ==
    \A r \in Req : Matched(r) /\ IsSome(req[r].result.card) =>
        req[r].result.card =
            Some(req[r].snapshot.cards[LowestWinner(req[r].votes) + 1])

\* C8: a response carries a card if and only if the reference with the
\* most votes has at least 50.
C8_MatchThreshold ==
    [][\A r \in Req : Responds(r) =>
          (IsSome(req'[r].result.card) <=> WinningVotes(req[r].votes) >= 50)]_vars

\* A task returned a card for exactly 50 winning votes.
C8_Witness ==
    \E r \in Req :
        /\ req[r].pc = "matched"
        /\ WinningVotes(req[r].votes) = 50
        /\ IsSome(req[r].result.card)

\* C9: the confidence of a response with a card is min(1, winning votes /
\* 100); it lies in [1/2, 1] and is 1 exactly from 100 winning votes on.
C9_Confidence ==
    [][\A r \in Req : Responds(r) /\ IsSome(req'[r].result.card) =>
          LET w == WinningVotes(req[r].votes)
              c == req'[r].result.confidence
          IN  /\ FracEq(c, IF w >= 100 THEN Frac(1, 1) ELSE Frac(w, 100))
              /\ FracLe(Frac(1, 2), c)
              /\ FracLe(c, Frac(1, 1))
              /\ FracEq(c, Frac(1, 1)) <=> w >= 100]_vars

\* A task returned a card for more than 100 winning votes, with the
\* confidence 1.
C9_Witness ==
    \E r \in Req :
        /\ req[r].pc = "matched"
        /\ WinningVotes(req[r].votes) > 100
        /\ IsSome(req[r].result.card)
        /\ FracEq(req[r].result.confidence, Frac(1, 1))

\* C10: a response without a card has the confidence 0, and the response
\* to a query without features, or with fewer than 50 winning votes, is
\* one without a card.
C10_NoMatchInvariance ==
    [][\A r \in Req : Responds(r) =>
          /\ ~IsSome(req'[r].result.card) =>
                FracEq(req'[r].result.confidence, Frac(0, 1))
          /\ (req[r].stage = "nofeatures" \/ WinningVotes(req[r].votes) < 50) =>
                /\ ~IsSome(req'[r].result.card)
                /\ FracEq(req'[r].result.confidence, Frac(0, 1))]_vars

\* A task returned no card for a query with votes, fewer than 50.
C10_Witness ==
    \E r \in Req :
        /\ req[r].pc = "matched"
        /\ WinningVotes(req[r].votes) > 0
        /\ WinningVotes(req[r].votes) < 50
        /\ req[r].result = NoMatch

\* The votes of img_idx t by the definition: one per query descriptor with
\* exactly two neighbours, the nearest in t, and 4 * best < 3 * second (the
\* f32 comparison best < 0.75 * second, exact for these distances).
RECURSIVE GoodMatches(_, _)
GoodMatches(matches, t) ==
    IF matches = <<>> THEN 0
    ELSE LET m == matches[1].m IN
         (IF /\ Len(m) = 2
             /\ 4 * m[1].distance < 3 * m[2].distance
             /\ m[1].img_idx = t
          THEN matches[1].n ELSE 0) + GoodMatches(Tail(matches), t)

\* The neighbours knn_match returns for the query of request r against its
\* snapshot.
MatchesOf(r) ==
    knn_match(akaze_bytes_to_mat(req[r].body.desc).val, req[r].snapshot.train_vec, 2).val

\* C11: the votes of a reference are the query descriptors with exactly
\* two neighbours, the nearest of them in that reference, and
\* best.distance < 0.75 * second.distance, strictly; no other descriptor
\* votes.
C11_RatioTest ==
    \A r \in Req : Matched(r) /\ req[r].stage = "matched" =>
        /\ DOMAIN req[r].votes \subseteq 0..(Len(req[r].snapshot.cards) - 1)
        /\ \A t \in 0..(Len(req[r].snapshot.cards) - 1) :
              (IF t \in DOMAIN req[r].votes THEN req[r].votes[t] ELSE 0)
                  = GoodMatches(MatchesOf(r), t)

\* A task counted no vote for descriptors whose two neighbours are at the
\* distances 3 and 4: best = 0.75 * second.
C11_Witness ==
    \E r \in Req :
        /\ req[r].pc = "matched"
        /\ req[r].stage = "matched"
        /\ DOMAIN req[r].votes = {}
        /\ \E i \in DOMAIN MatchesOf(r) :
              LET m == MatchesOf(r)[i].m IN
              Len(m) = 2 /\ m[1].distance = 3 /\ m[2].distance = 4

\* The step is the UPDATE of request r.
Updates(r) == req[r].pc = "matched" /\ req'[r].pc = "counted"

\* C12: a request with a card makes one UPDATE, between the match and the
\* response, which adds exactly 1 to the counter or, failing, nothing; the
\* counter changes in no other step, and never by more than 1.
C12_OneIncrementPerCard ==
    [][/\ \A r \in DOMAIN req :
            /\ Updates(r) =>
                  /\ IsSome(req[r].result.card)
                  /\ total_scans' = total_scans + (IF req'[r].incremented THEN 1 ELSE 0)
            /\ Responds(r) /\ IsSome(req'[r].result.card) => req[r].pc = "counted"
            /\ req[r].pc = "counted" /\ req'[r] # req[r] =>
                  Responds(r) /\ total_scans' = total_scans
       /\ total_scans' # total_scans =>
            /\ total_scans' = total_scans + 1
            /\ \E r \in DOMAIN req : Updates(r)]_vars

\* A request with a card of confidence 1/2 has added 1 to the counter.
C12_Witness ==
    \E r \in DOMAIN req :
        /\ req[r].pc = "counted"
        /\ req[r].incremented
        /\ FracEq(req[r].result.confidence, Frac(1, 2))
        /\ total_scans = scans0 + 1

\* C13: no step of a request whose result has no card changes the counter,
\* and such a request responds without an UPDATE.
C13_NoMatchLeavesCounter ==
    [][\A r \in DOMAIN req :
          /\ req'[r] # req[r] /\ ~IsSome(req'[r].result.card) =>
                total_scans' = total_scans
          /\ Responds(r) /\ ~IsSome(req'[r].result.card) => req[r].pc = "matched"]_vars

\* A request has responded without a card and the counter is where it
\* started.
C13_Witness ==
    \E r \in DOMAIN req :
        /\ req[r].pc = "done"
        /\ ~IsSome(req[r].result.card)
        /\ total_scans = scans0

\* C14: the counter never decreases.
C14_CounterMonotonic == [][total_scans' >= total_scans]_vars

\* The counter has grown, an index has been published since the startup,
\* and a stats request has been answered.
C14_Witness ==
    /\ total_scans > scans0
    /\ index # 1
    /\ bg.pc = "items"
    /\ IsSome(stats)

\* Every request has responded.
AllDone == \A r \in DOMAIN req : req[r].pc = "done"

\* The number of responses with a card.
CardResponses ==
    Cardinality({ r \in DOMAIN req : req[r].pc = "done" /\ IsSome(req[r].result.card) })

\* C15: when all requests have responded and no store operation has
\* failed, the counter is its initial value plus the number of responses
\* with a card, and GET /api/stats reports that value.
C15_NoLostUpdates ==
    [][AllDone' =>
          /\ total_scans' = scans0 + CardResponses'
          /\ stats' # stats =>
                Unwrap(stats').total_scanned_cards = scans0 + CardResponses']_vars

\* All requests have responded with a card, from a counter that was not 0,
\* and the stats report the initial value plus their number.
C15_Witness ==
    /\ AllDone
    /\ CardResponses = NumClients
    /\ scans0 > 0
    /\ stats = Some([total_scanned_cards |-> scans0 + NumClients])

\* C16, as stated: the global_total_scans of a response with a card is at
\* least 1 more than the counter was when the request started, and that of
\* a response without a card is a value the counter held during the
\* request.
C16_TotalReadAfterIncrement ==
    [][\A r \in DOMAIN req : Responds(r) =>
          LET g == req'[r].result.global_total_scans IN
          IF IsSome(req'[r].result.card)
          THEN g >= req[r].start + 1
          ELSE req[r].start <= g /\ g <= total_scans]_vars

\* C16, amended: the global_total_scans of a response is 0 when the SELECT
\* failed, and otherwise the counter at the time of the response, which is
\* at least the value at the start of the request, plus 1 when the
\* request's own UPDATE succeeded.
C16_TotalReadWhenStoreAnswers ==
    [][\A r \in DOMAIN req : Responds(r) =>
          LET g == req'[r].result.global_total_scans IN
          \/ g = 0
          \/ /\ g = total_scans
             /\ g >= req[r].start + (IF req[r].incremented THEN 1 ELSE 0)]_vars

\* A response with a card reports the counter after the request's own
\* increment, from a counter that was not 0.
C16_Witness ==
    \E r \in DOMAIN req :
        /\ req[r].pc = "done"
        /\ IsSome(req[r].result.card)
        /\ scans0 > 0
        /\ req[r].result.global_total_scans = scans0 + 1

\* The stages at which the task stops on a failure.
FailureStages ==
    {"panic", "decode", "extract", "querymat", "create", "add", "train", "knn"}

\* C17: a request whose task failed at any stage, or panicked, responds
\* with a ScanResult without a card and with the confidence 0; every
\* response is a ScanResult.
C17_FailuresYieldNoMatch ==
    [][\A r \in DOMAIN req : Responds(r) =>
          /\ DOMAIN req'[r].result = {"card", "confidence", "global_total_scans"}
          /\ req'[r].result.global_total_scans \in Nat
          /\ req[r].stage \in FailureStages =>
                /\ req'[r].result.card = None
                /\ FracEq(req'[r].result.confidence, Frac(0, 1))]_vars

\* The task of a request panicked and returned no match.
C17_Witness ==
    \E r \in DOMAIN req :
        /\ req[r].pc = "matched"
        /\ req[r].stage = "panic"
        /\ req[r].result.card = None
        /\ FracEq(req[r].result.confidence, Frac(0, 1))

\* C18: the UPDATE and the SELECT, failing or not, leave the card and the
\* confidence of the match in the response.
C18_StoreFailuresKeepResult ==
    [][\A r \in DOMAIN req : Updates(r) \/ Responds(r) =>
          /\ req'[r].result.card = req[r].result.card
          /\ req'[r].result.confidence = req[r].result.confidence]_vars

\* A response with a card after both the UPDATE and the SELECT failed: the
\* counter is where it started, not at 0, and the response reports 0.
C18_Witness ==
    \E r \in DOMAIN req :
        /\ req[r].pc = "done"
        /\ IsSome(req[r].result.card)
        /\ scans0 > 0
        /\ total_scans = scans0
        /\ req[r].result.global_total_scans = 0

\* The positions of a request, each with the position that follows it.
HandlerOrder ==
    {<<"idle", "locked">>, <<"locked", "acquired">>, <<"acquired", "matched">>,
     <<"matched", "counted">>, <<"matched", "done">>, <<"counted", "done">>}

\* The stages the task reaches only with a decoded image, only with
\* descriptors, and only with a query matrix.
AfterDecode ==
    {"extract", "nofeatures", "querymat", "create", "add", "train", "knn", "matched"}

AfterExtract == {"querymat", "create", "add", "train", "knn", "matched"}

AfterQueryMat == {"create", "add", "train", "knn", "matched"}

\* The step is the blocking task of request r.
Matches(r) == req[r].pc = "acquired" /\ req'[r].pc = "matched"

\* C19: a request moves through read lock, clone, task, UPDATE and response
\* in this order and never back; its task stops at the first stage that
\* fails, in the order decode, extract, query matrix, matcher, knn, so a
\* stage is reached only when every stage before it succeeded, and a task
\* that stopped has no votes, no winner and no card; the counter changes
\* only in the UPDATE of a request whose task has returned its result.
C19_StagesInOrder ==
    [][/\ \A r \in DOMAIN req :
            /\ req'[r].pc # req[r].pc => <<req[r].pc, req'[r].pc>> \in HandlerOrder
            /\ req[r].pc \in {"idle", "locked", "acquired"} =>
                  req[r].stage = "" /\ req[r].result = NoMatch
            /\ Matches(r) =>
                  LET body == req[r].body
                      stage == req'[r].stage
                      desc == compute_akaze_features(body, FALSE).val
                  IN  /\ stage \in AfterDecode \cup {"panic", "decode"}
                      /\ stage = "decode" => ~body.decodes
                      /\ stage \in AfterDecode => body.decodes
                      /\ stage = "nofeatures" => IsEmpty(desc)
                      /\ stage \in AfterExtract => ~IsEmpty(desc)
                      /\ stage = "querymat" => ~akaze_bytes_to_mat(desc).ok
                      /\ stage \in AfterQueryMat => akaze_bytes_to_mat(desc).ok
                      /\ stage # "matched" =>
                            /\ req'[r].votes = <<>>
                            /\ req'[r].max_good_matches = 0
                            /\ req'[r].result = NoMatch
       /\ total_scans' # total_scans =>
            \E r \in DOMAIN req :
                /\ Updates(r)
                /\ req[r].stage = "matched"
                /\ IsSome(req[r].result.card)]_vars

\* A request whose image decoded and gave descriptors, whose task ran to
\* the end and found a card, and whose UPDATE then added 1 to the counter.
C19_Witness ==
    \E r \in DOMAIN req :
        /\ req[r].pc = "counted"
        /\ req[r].stage = "matched"
        /\ req[r].body.decodes
        /\ akaze_bytes_to_mat(req[r].body.desc).ok
        /\ IsSome(req[r].result.card)
        /\ total_scans = req[r].start + 1

\* C20: a request that acquired a snapshot without records has, whatever
\* its body and whatever fails, a result without a card and with the
\* confidence 0, makes no UPDATE, and responds so with the counter as it was.
C20_EmptySnapshotNoMatch ==
    [][\A r \in DOMAIN req : req[r].snapshot.cards = <<>> =>
          /\ Matched(r) =>
                /\ req[r].result.card = None
                /\ FracEq(req[r].result.confidence, Frac(0, 1))
          /\ ~Updates(r)
          /\ Responds(r) =>
                /\ req'[r].result.card = None
                /\ FracEq(req'[r].result.confidence, Frac(0, 1))
                /\ ~req[r].incremented
                /\ total_scans' = total_scans]_vars

\* The task of a request matched a photo with descriptors against a
\* snapshot without records, to the end, and found no card.
C20_Witness ==
    \E r \in DOMAIN req :
        /\ req[r].pc = "matched"
        /\ req[r].snapshot.cards = <<>>
        /\ req[r].snapshot.train_vec = <<>>
        /\ req[r].stage = "matched"
        /\ ~IsEmpty(req[r].body.desc)
        /\ req[r].result = NoMatch

\* The record of the row `id` is in the snapshot S.
Indexed(S, id) == \E i \in DOMAIN S.cards : S.cards[i].id = id

\* C21: the decode of a blob whose length is not a multiple of 61 is an
\* error and the index build skips its row; the decode of the empty blob
\* is the empty matrix.
C21_InvalidBlobRejected ==
    index # 0 =>
        \A id \in DOMAIN db_cards :
            LET b == db_cards[id].akaze_data IN
            /\ BytesLen(b) % AKAZE_DESC_SIZE # 0 =>
                  /\ ~akaze_bytes_to_mat(b).ok
                  /\ ~Indexed(Unwrap(snaps[index]), id)
            /\ IsEmpty(b) => akaze_bytes_to_mat(b) = Ok(MatDefault)

\* C22: a blob of k * 61 bytes is decoded, not skipped; its matrix has k
\* rows, of 61 columns when k > 0, and the bytes of the matrix, row after
\* row, are the blob.
C22_DescriptorRoundTrip ==
    index # 0 =>
        LET S == Unwrap(snaps[index]) IN
        /\ \A id \in DOMAIN db_cards :
              BytesLen(db_cards[id].akaze_data) % AKAZE_DESC_SIZE = 0 => Indexed(S, id)
        /\ \A i \in DOMAIN S.cards :
              LET b == S.cards[i].akaze_data
                  m == S.train_vec[i]
              IN  BytesLen(b) % AKAZE_DESC_SIZE = 0 =>
                    /\ m.rows = BytesLen(b) \div AKAZE_DESC_SIZE
                    /\ m.rows > 0 => m.cols = AKAZE_DESC_SIZE
                    /\ descriptors_bytes(m) = BufBytes(b)

\* A snapshot with the 2 x 61 matrix of a blob of 122 bytes, whose bytes are
\* the blob: a byte that is not 0, then 121 zero bytes.
C22_Witness ==
    /\ index # 0
    /\ \E i \in DOMAIN Unwrap(snaps[index]).cards :
          LET S == Unwrap(snaps[index]) IN
          /\ BytesLen(S.cards[i].akaze_data) = 2 * AKAZE_DESC_SIZE
          /\ S.train_vec[i].rows = 2
          /\ Len(descriptors_bytes(S.train_vec[i])) = 2
          /\ descriptors_bytes(S.train_vec[i])[2] = <<0, 2 * AKAZE_DESC_SIZE - 1>>

\* C24: at most CONCURRENCY_LIMIT items are in flight in a run of the
\* server's job and in a run of the binary, and an item in flight has not
\* completed.
C24_BoundedConcurrency ==
    /\ Cardinality(bg.inflight) <= 10
    /\ Cardinality(cli.inflight) <= 10
    /\ bg.inflight \subseteq bg.pending
    /\ cli.inflight \subseteq cli.pending

\* The first ten items of the server's run are in flight and the next item
\* of the catalog waits for one of them to complete.
C24_Witness ==
    /\ bg.pc = "items"
    /\ Cardinality(bg.inflight) = 10
    /\ \E item \in bg.pending \ bg.inflight :
          \A other \in bg.inflight : other.number < item.number

\* The step is the end of the future of `item` in the server's job, in the
\* binary.
ServerItem(item) == bg.pc = "items" /\ item \in bg.pending /\ item \notin bg'.pending

BinItem(item) == cli.pc = "items" /\ item \in cli.pending /\ item \notin cli'.pending

\* The step is the end of a run that returns Ok.
ServerRunEnds == bg.pc = "items" /\ bg'.pc # "items"

BinRunEnds == cli.pc = "items" /\ cli'.pc # "items"

\* The row of the id in a table, if any.
RowOf(table, id) == IF id \in DOMAIN table THEN Some(table[id]) ELSE None

\* The rows and the files of the other ids are as before the step.
OthersUntouched(id) ==
    /\ \A i \in (DOMAIN db_cards \cup DOMAIN db_cards') \ {id} :
          RowOf(db_cards', i) = RowOf(db_cards, i)
    /\ \A i \in (DOMAIN files \cup DOMAIN files') \ {id} :
          RowOf(files', i) = RowOf(files, i)

\* C23: the end of an item, failed or not, leaves the run going with the
\* other items still to come and their rows and files untouched; a run ends
\* only when every item has ended, it returns Ok whichever items failed,
\* and every item that did not fail has a row with a hash then.
C23_ItemFailuresIsolated ==
    [][/\ \A item \in Catalog :
            /\ ServerItem(item) =>
                  /\ bg'.pc = "items"
                  /\ bg'.pending = bg.pending \ {item}
                  /\ OthersUntouched(CardId(item))
            /\ BinItem(item) =>
                  /\ cli'.pc = "items"
                  /\ cli'.pending = cli.pending \ {item}
                  /\ OthersUntouched(CardId(item))
       /\ ServerRunEnds \/ BinRunEnds =>
            /\ bg.pending = {} /\ cli.pending = {}
            /\ IsSome(hist'.last)
            /\ Unwrap(hist'.last).failed = hist.failed
            /\ \A item \in Catalog \ hist.failed :
                  /\ CardId(item) \in DOMAIN db_cards
                  /\ db_cards[CardId(item)].phash # <<>>]_vars

\* A run of the server's job returned Ok and went on to the index although
\* its first item failed and left no row; its last item has the row of
\* this run.
C23_Witness ==
    /\ bg.pc = "lock"
    /\ IsSome(hist.last)
    /\ Unwrap(hist.last).failed = {CatalogItem(1)}
    /\ IdOf(1) \notin DOMAIN db_cards
    /\ IdOf(NumCards) \in DOMAIN db_cards
    /\ db_cards[IdOf(NumCards)].name = CatalogItem(NumCards).name

\* No image file that is present is written.
NoFileRewritten ==
    \A id \in DOMAIN files : id \in DOMAIN files' /\ files'[id] = files[id]

\* C25, as stated: a run after a run of the same entry point ends with the
\* cards table the earlier run left, and no step writes an image file that
\* is present.
C25_SecondRunChangesNothing ==
    [][/\ NoFileRewritten
       /\ (ServerRunEnds \/ BinRunEnds) /\ IsSome(hist.last)
             /\ Unwrap(hist.last).entry = hist.entry =>
            db_cards = Unwrap(hist.last).table]_vars

\* C25, amended: a run after a run of the same entry point ends with the
\* row (or with no row) the earlier run left for every item that did not
\* fail in the earlier run, and so with the same table when none failed;
\* no step writes an image file that is present.
C25_SecondRunKeepsIngestedRows ==
    [][/\ NoFileRewritten
       /\ (ServerRunEnds \/ BinRunEnds) /\ IsSome(hist.last)
             /\ Unwrap(hist.last).entry = hist.entry =>
            /\ \A item \in Catalog \ Unwrap(hist.last).failed :
                  RowOf(db_cards, CardId(item)) =
                      RowOf(Unwrap(hist.last).table, CardId(item))
            /\ Unwrap(hist.last).failed = {} => db_cards = Unwrap(hist.last).table]_vars

\* A run has ended after a run of the same entry point without a failed
\* item, with a row and an image file for every item of the catalog.
C25_Witness ==
    /\ IsSome(hist.last)
    /\ Unwrap(hist.last).repeat
    /\ Unwrap(hist.last).table = db_cards
    /\ DOMAIN db_cards = Ids
    /\ DOMAIN files = Ids

C27_CompleteIffBothNonEmpty ==
    \A id \in Ids :
        has_complete(db_cards, id) <=>
            /\ id \in DOMAIN db_cards
            /\ db_cards[id].phash # <<>>
            /\ ~IsEmpty(db_cards[id].akaze_data)

\* C28: an item of either entry point that writes the full row of an id
\* that has a row leaves the row with the name, subtitle, phash, image_url,
\* akaze_data, rarity, set_code and card_number of this ingestion.
C28_FullUpsertOverwrites ==
    [][\A item \in Catalog :
          LET id == CardId(item)
              full == IF ServerItem(item)
                      THEN id \notin DOMAIN files \/ ~has_complete(db_cards, id)
                      ELSE BinItem(item)
          IN  full /\ item \notin hist'.failed /\ id \in DOMAIN db_cards =>
                LET row == FullRow(item, files'[id],
                                   compute_akaze_features(files'[id], FALSE).val)
                IN  /\ db_cards'[id].name = row.name
                    /\ db_cards'[id].subtitle = row.subtitle
                    /\ db_cards'[id].phash = row.phash
                    /\ db_cards'[id].image_url = row.image_url
                    /\ db_cards'[id].akaze_data = row.akaze_data
                    /\ db_cards'[id].rarity = row.rarity
                    /\ db_cards'[id].set_code = row.set_code
                    /\ db_cards'[id].card_number = row.card_number]_vars

\* The step is the swap of the background task.
Swaps == bg.pc = "swap" /\ bg'.pc # "swap"

\* The step publishes the index of the table and the job sleeps: the cell
\* holds load_index of the cards table, with a record for every row that
\* has a hash.
PublishesTable ==
    /\ bg'.pc = "sleep"
    /\ Unwrap(snaps'[index']) = load_index(db_cards)
    /\ \A id \in DOMAIN db_cards :
          db_cards[id].phash # <<>> => Indexed(Unwrap(snaps'[index']), id)

\* A request that clones the Arc gets the snapshot of the cell, the one of
\* the last publish.
ClonesPublished ==
    \A r \in DOMAIN req :
        req[r].pc = "locked" /\ req'[r].pc = "acquired" =>
            /\ req'[r].snapshot = Unwrap(snaps[index])
            /\ req'[r].snapshot = latest

C30_LocksOnlyForSwapAndClone ==
    /\ lock.writer <=> bg.pc = "swap"
    /\ \A r \in DOMAIN req : r \in lock.readers <=> req[r].pc = "locked"
    /\ lock.writer => lock.readers = {}

\* The job ingests while a request, holding no lock, is between its clone
\* and the end of its task.
C30_Witness ==
    /\ bg.pc = "items"
    /\ bg.pending # Catalog
    /\ ~lock.writer
    /\ lock.readers = {}
    /\ \E r \in DOMAIN req : req[r].pc = "acquired"

\* The key of an item in the export: the promo grouping when the card has
\* one, else the set code, after a "0" for Dreamborn; the card number; foil.
ExportKey(item, format) ==
    <<IF item.card.promo_grouping # None THEN item.card.promo_grouping[1]
      ELSE IF format = "Standard" THEN item.card.set_code
      ELSE "0" \o item.card.set_code,
      item.card.card_number, item.is_foil>>

\* The first item of the list with the key.
FirstOf(items, format, key) ==
    CHOOSE i \in DOMAIN items :
        /\ ExportKey(items[i], format) = key
        /\ \A j \in DOMAIN items : ExportKey(items[j], format) = key => i <= j

\* The number a decimal text stands for.
ParseCount(text) == CHOOSE n \in 0..(MaxItems + 1) : ToString(n) = text

RECURSIVE SumCounts(_)
SumCounts(lines) ==
    IF lines = <<>> THEN 0 ELSE ParseCount(Head(lines)[4]) + SumCounts(Tail(lines))

\* C31: the content of a download has the header line of its format and
\* one line per distinct key of the list, in the order of the keys' first
\* items; the line has the key's group, number and variant, and as Count
\* the number of items with the key; the counts add up to the length of
\* the list.
C31_CsvAggregates ==
    IsSome(app.csv) =>
        LET items == Unwrap(app.csv).items
            format == Unwrap(app.csv).format
            content == Unwrap(app.csv).content
            keys == { ExportKey(items[i], format) : i \in DOMAIN items }
            data == Tail(content)
        IN  /\ content[1] = IF format = "Standard"
                            THEN <<"Set Number", "Card Number", "Variant", "Count",
                                   "Card Name", "Rarity", "Price", "ScannedAt">>
                            ELSE <<"Set Number", "Card Number", "Variant", "Count">>
            /\ Len(data) = Cardinality(keys)
            /\ \A key \in keys :
                 LET rank == Cardinality({ k \in keys :
                                FirstOf(items, format, k) <= FirstOf(items, format, key) })
                     line == data[rank]
                 IN  /\ line[1] = key[1]
                     /\ line[2] = ToString(key[2])
                     /\ line[3] = (IF key[3] THEN "foil" ELSE "normal")
                     /\ line[4] = ToString(Cardinality({ i \in DOMAIN items :
                                            ExportKey(items[i], format) = key }))
            /\ SumCounts(data) = Len(items)

\* A Dreamborn download of three items: two with the same key, between
\* them one with another key.
C31_Witness ==
    /\ IsSome(app.csv)
    /\ LET c == Unwrap(app.csv) IN
        /\ c.format = "Dreamborn"
        /\ Len(c.items) = 3
        /\ ExportKey(c.items[1], c.format) = ExportKey(c.items[3], c.format)
        /\ ExportKey(c.items[1], c.format) # ExportKey(c.items[2], c.format)
        /\ c.items[1].card # c.items[3].card
        /\ Len(c.content) = 3

\* C32: a Card that was serialised and deserialised has the id, the rarity,
\* the set code, the card number and every other field of the Card that
\* was serialised, and deserialising it does not fail: the card a task got
\* from a response is the card the response was written from, and no task
\* has panicked at the unwrap of the parse.
C32_CardRoundTrip ==
    \A t \in DOMAIN app.tasks :
        /\ app.tasks[t].pc # "panicked"
        /\ app.tasks[t].pc = "prices" =>
             LET sent == Unwrap(Unwrap(app.tasks[t].sent).card)
                 got == Unwrap(Unwrap(app.tasks[t].result).card)
             IN  /\ got.id = sent.id
                 /\ got.rarity = sent.rarity
                 /\ got.set_code = sent.set_code
                 /\ got.card_number = sent.card_number
                 /\ got = sent

\* A task has the card of a response whose card has no descriptors, no
\* promo grouping and a quote in its name.
C32_Witness ==
    \E t \in DOMAIN app.tasks :
        /\ app.tasks[t].pc = "prices"
        /\ LET got == Unwrap(Unwrap(app.tasks[t].result).card) IN
            /\ got.akaze_data = <<>>
            /\ got.promo_grouping = None
            /\ \E i \in DOMAIN got.name : got.name[i] = "\""

\* C40: is_scanning is true whenever a task spawned by start_scan is at its
\* identify request.
C40_ScanningWhileInFlight ==
    (\E t \in DOMAIN app.tasks : app.tasks[t].pc = "identify") => app.is_scanning

\* C33: an item of the server's job with its image file present and a row
\* with a hash leaves the phash, the akaze_data, the image_url and the
\* promo_grouping of its row, every other row and every file as they were,
\* failed or not.
C33_MetadataOnlyFrame ==
    [][\A item \in Catalog :
          LET id == CardId(item) IN
          /\ ServerItem(item)
          /\ id \in DOMAIN files
          /\ id \in DOMAIN db_cards
          /\ db_cards[id].phash # <<>>
          => /\ DOMAIN db_cards' = DOMAIN db_cards
             /\ \A other \in DOMAIN db_cards \ {id} : db_cards'[other] = db_cards[other]
             /\ db_cards'[id].id = id
             /\ db_cards'[id].phash = db_cards[id].phash
             /\ db_cards'[id].akaze_data = db_cards[id].akaze_data
             /\ db_cards'[id].image_url = db_cards[id].image_url
             /\ db_cards'[id].promo_grouping = db_cards[id].promo_grouping
             /\ files' = files]_vars

\* The row of the first item, a promo card of an earlier ingestion, has the
\* name of the catalog after a run of the server's job, and the image URL
\* and the promo grouping it had, beside another row.
C33_Witness ==
    /\ IsSome(hist.last)
    /\ Unwrap(hist.last).entry = "server"
    /\ DOMAIN db_cards = Ids
    /\ db_cards[IdOf(1)].name = CatalogItem(1).name
    /\ db_cards[IdOf(1)].image_url # ImageUrl(IdOf(1))
    /\ db_cards[IdOf(1)].promo_grouping = Some("P1")

\* C34: a file of the image directory holds all of an image its URL has
\* served: no failed or interrupted write leaves a file.
C34_FilesComplete ==
    \A id \in DOMAIN files : files[id] \in FileImages(CatalogItem(id[3]))

\* C38: every item that failed in a run has a record with a hash and
\* descriptors at the end of a later run of the server's job in which the
\* source, the disk and the store are healthy.
C38_RecoversInHealthyRun ==
    [][ServerRunEnds /\ Healthy =>
          \A item \in Unwrap(hist.last).failed :
              /\ CardId(item) \in DOMAIN db_cards
              /\ db_cards[CardId(item)].phash # <<>>
              /\ ~IsEmpty(db_cards[CardId(item)].akaze_data)]_vars

\* C36: the picture preprocess_image returns is its input resized to fit
\* 500 x 500, converted to grayscale, contrast stretched and then blurred.
C36_PreprocessStretches ==
    IsSome(processed) =>
        Unwrap(processed).out =
            Blur(Contrast(ToLuma8(Resize(Unwrap(processed).img, 500, 500)), 20))

\* What preprocess_image returns is the blurred grayscale of the resized
\* picture, without the contrast stretch.
PreprocessSkipsContrast ==
    IsSome(processed) =>
        Unwrap(processed).out = Blur(ToLuma8(Resize(Unwrap(processed).img, 500, 500)))

\* The published snapshot: what the cell of the shared state points to.
Published == IF index = 0 THEN None ELSE snaps[index]

\* The step is a run of the job that fails before its items, or a reload
\* that fails after them.
RunOrReloadFails == bg.pc \in {"fetch", "items"} /\ bg'.pc = "sleep"

\* C37: a failed ingestion run and a failed reload leave the published
\* snapshot as it was; after startup there is always a published snapshot,
\* and it is replaced only by the swap, by an index that load_index built.
C37_SnapshotSurvivesFailures ==
    [][/\ RunOrReloadFails => Published' = Published /\ index' = index
       /\ index # 0 => index' # 0 /\ IsSome(Published')
       /\ index # 0 /\ (Published' # Published \/ index' # index) =>
            /\ Swaps
            /\ Published' = bg.new_index
       /\ bg'.new_index # bg.new_index /\ IsSome(bg'.new_index) =>
            bg'.new_index = Some(load_index(db_cards))]_vars

\* The job sleeps after a run that left the table changed and whose reload
\* failed: the cell still holds the index of the older table.
C37_Witness ==
    /\ index # 0
    /\ bg.pc = "sleep"
    /\ IsSome(hist.last)
    /\ IsSome(snaps[index])
    /\ Unwrap(snaps[index]) # load_index(db_cards)

\* C39, as stated: of two identify responses where the first is produced
\* before the second request starts, the second's global_total_scans is
\* greater than or equal to the first's.
C39_TotalsNeverGoBack ==
    \A r \in DOMAIN req :
        r > 1 /\ req[1].pc = "done" /\ req[r].pc = "done" =>
            req[r].result.global_total_scans >= req[1].result.global_total_scans

\* C39, amended: a response whose SELECT fails reports 0; any other
\* response reports the counter at the time of the response, which is
\* greater than or equal to the global_total_scans of every response
\* produced before it.
C39_TotalsNeverGoBackUnlessZero ==
    [][\A r \in DOMAIN req : Responds(r) =>
          LET g == req'[r].result.global_total_scans IN
          \/ g = 0
          \/ /\ g = total_scans
             /\ \A q \in DOMAIN req :
                   req[q].pc = "done" => g >= req[q].result.global_total_scans]_vars

\* The first request was answered with a counter above 0, and a request
\* started after that answer was answered with a greater one.
C39_Witness ==
    \E r \in DOMAIN req :
        /\ r > 1
        /\ req[1].pc = "done"
        /\ req[r].pc = "done"
        /\ req[1].result.global_total_scans > 0
        /\ req[r].result.global_total_scans > req[1].result.global_total_scans

\* The background task is inside a run: run_ingestion, the reload, the
\* wait for the write lock or the swap.
InRun == bg.pc \in {"fetch", "items", "lock", "swap"}

\* C35: the background loop never stops: every run, whether it succeeds,
\* fails, or its reload fails, is followed by the sleep, and every sleep by
\* another run, so in a server that has started ingestion is attempted
\* again and again.
C35_LoopNeverStops ==
    /\ [](index # 0 => bg.pc # "exit")
    /\ InRun ~> (bg.pc = "sleep")
    /\ (bg.pc = "sleep") ~> (bg.pc = "fetch")
    /\ [](index # 0 => <>(bg.pc = "fetch"))

\* The job is about to run ingestion again after a run whose reload
\* failed: the cell still holds the index of the older table.
C35_Witness ==
    /\ index # 0
    /\ bg.pc = "fetch"
    /\ IsSome(hist.last)
    /\ Unwrap(snaps[index]) # load_index(db_cards)

=============================================================================
